---------------------------- MODULE Spec2Model ----------------------------
(***************************************************************************)
(* A model of the condominium ledger application (React, client side).    *)
(*                                                                         *)
(* Conventions of the model                                                *)
(*  - a nullable value is a sequence: <<>> is null/undefined/absent and    *)
(*    <<v>> is the value v;                                                *)
(*  - a text (description, organisation name, account name) is a sequence  *)
(*    of one-character tokens; the token "(Copia)" stands for that suffix; *)
(*  - an id is a natural number, 0 standing for undefined / empty string;  *)
(*  - an amount is an integer number of cents, NaN being JavaScript's NaN; *)
(*  - a date "YYYY-MM-DD" is the integer YYYYMMDD, whose order is the      *)
(*    lexicographic order of the ISO strings; new Date(d) is UTC midnight  *)
(*    of that day and the local getters (getFullYear, getMonth) are taken  *)
(*    in a time zone at or east of UTC, where they give the same calendar  *)
(*    day;                                                                 *)
(*  - time is counted in hours since 2023-01-01T00:00Z and the time zone   *)
(*    is UTC.                                                              *)
(***************************************************************************)
EXTENDS Integers, Sequences, FiniteSets, TLC

VARIABLES
    \* App.tsx, InnerApp state
    condoName, isLoading, currentView,
    expenses, incomes, bankAccounts,
    editingExpense, editingIncome, editingBankAccount,
    \* persistence substrate: IndexedDB (idb-keyval), legacy localStorage,
    \* the requests issued and not yet executed, the position of loadData,
    \* whether IndexedDB accepts writes (it does not once the quota is used up)
    idb, legacy, idbQueue, loadPc, idbWritable,
    \* the browser the application runs in: which algorithm its
    \* Array.prototype.sort is
    sortImpl,
    \* ExpenseForm local state
    pendingExpenseData, showDuplicateWarning,
    \* ExpenseList local state
    isImporting, importCandidates, showImportReview, listFilter, lastExport,
    \* the clock
    now,
    \* Dashboard: selected year and the memoised overdue list
    selectedYear, overdueMemo,
    \* ReportView local state
    reportYear, groupMode,
    \* source of fresh ids (generateId, crypto.randomUUID)
    nextId,
    \* history: what the store held when the last login was made, and
    \* whether since then every request succeeded and the user changed nothing
    loginSnapshot, pristine,
    \* what the user is given: the message the handler of the last step showed
    \* with alert() ("" if it showed none; a form submission that the form
    \* rejects is no step), and the workbook and the backup file the
    \* Dashboard wrote last
    alertText, lastWorkbook, lastBackup

appVars     == <<condoName, isLoading, currentView>>
ledgerVars  == <<expenses, incomes, bankAccounts>>
editVars    == <<editingExpense, editingIncome, editingBankAccount>>
storeVars   == <<idb, legacy, idbQueue, loadPc, idbWritable, sortImpl>>
formVars    == <<pendingExpenseData, showDuplicateWarning>>
importVars  == <<isImporting, importCandidates, showImportReview>>
listVars    == <<listFilter, lastExport>>
dashVars    == <<selectedYear, overdueMemo>>
reportVars  == <<reportYear, groupMode>>
histVars    == <<loginSnapshot, pristine>>
outVars     == <<alertText, lastWorkbook, lastBackup>>

vars == <<appVars, ledgerVars, editVars, storeVars, formVars, importVars,
          listVars, now, dashVars, reportVars, nextId, histVars, outVars>>

---------------------------------------------------------------------------
(* Values *)

None == <<>>
Some(v) == <<v>>
IsSome(o) == Len(o) > 0
Get(o) == o[1]

\* JavaScript's NaN as an amount: a value outside every amount the model uses
NaN == 0 - 999999
IsNaN(a) == a = NaN
\* a + b on numbers
Add(a, b) == IF IsNaN(a) \/ IsNaN(b) THEN NaN ELSE a + b
\* a - b on numbers
Sub(a, b) == IF IsNaN(a) \/ IsNaN(b) THEN NaN ELSE a - b
\* a > 0 on numbers (false for NaN)
Positive(a) == ~IsNaN(a) /\ a > 0

RECURSIVE SumAmounts(_)
\* list.reduce((sum, e) => sum + e.amount, 0)
SumAmounts(list) ==
    IF list = <<>> THEN 0
    ELSE Add(SumAmounts(SubSeq(list, 1, Len(list) - 1)), list[Len(list)].amount)

RECURSIVE FilterSeq(_, _)
\* list.filter(test), for a test given as the set of the elements that pass
FilterSeq(list, pass) ==
    IF list = <<>> THEN <<>>
    ELSE (IF Head(list) \in pass THEN <<Head(list)>> ELSE <<>>)
             \o FilterSeq(Tail(list), pass)

Range(s) == {s[i] : i \in 1..Len(s)}

(* Texts *)

Space == " "
Copia == "(Copia)"

\* String.prototype.toLowerCase
ToLower(s) == [i \in 1..Len(s) |-> IF s[i] = "A" THEN "a"
                                    ELSE IF s[i] = "B" THEN "b" ELSE s[i]]

\* String.prototype.toUpperCase
ToUpper(s) == [i \in 1..Len(s) |-> IF s[i] = "a" THEN "A"
                                    ELSE IF s[i] = "b" THEN "B" ELSE s[i]]

RECURSIVE TrimLeft(_)
TrimLeft(s) == IF s # <<>> /\ Head(s) = Space THEN TrimLeft(Tail(s)) ELSE s

RECURSIVE TrimRight(_)
TrimRight(s) ==
    IF s # <<>> /\ s[Len(s)] = Space THEN TrimRight(SubSeq(s, 1, Len(s) - 1)) ELSE s

\* String.prototype.trim
Trim(s) == TrimRight(TrimLeft(s))

\* s.endsWith('(Copia)')
EndsWithCopia(s) == s # <<>> /\ s[Len(s)] = Copia

\* s.replace(/\s/g, '_')
ReplaceSpaces(s) == [i \in 1..Len(s) |-> IF s[i] = Space THEN "_" ELSE s[i]]

(* Dates *)

YearOf(d) == d \div 10000
\* month index 0..11, as Date.prototype.getMonth
MonthOf(d) == ((d \div 100) % 100) - 1
DayOf(d) == d % 100

IsLeap(y) == (y % 4 = 0 /\ y % 100 # 0) \/ y % 400 = 0

DaysInMonth(y, m) ==
    IF m = 1 THEN (IF IsLeap(y) THEN 29 ELSE 28)
    ELSE IF m \in {3, 5, 8, 10} THEN 30 ELSE 31

RECURSIVE DaysBeforeMonth(_, _)
DaysBeforeMonth(y, m) ==
    IF m = 0 THEN 0 ELSE DaysBeforeMonth(y, m - 1) + DaysInMonth(y, m - 1)

RECURSIVE DaysBeforeYear(_)
\* days from 2023-01-01 to the first of January of year y
DaysBeforeYear(y) ==
    IF y <= 2023 THEN 0
    ELSE DaysBeforeYear(y - 1) + (IF IsLeap(y - 1) THEN 366 ELSE 365)

\* new Date(d).getTime(), in hours since the epoch of the model
\* (NaN for the empty string and for a text that is no date, which are
\* an Invalid Date)
GetTime(d) ==
    IF d <= 0 THEN NaN
    ELSE 24 * (DaysBeforeYear(YearOf(d)) + DaysBeforeMonth(YearOf(d), MonthOf(d))
               + DayOf(d) - 1)

(* Sorting *)

\* the comparator (a, b) => new Date(b.date).getTime() - new Date(a.date).getTime()
\* (Array.prototype.sort reads a NaN result of the comparator as +0)
CompareDateDesc(a, b) ==
    LET c == Sub(GetTime(b.date), GetTime(a.date)) IN IF IsNaN(c) THEN 0 ELSE c

\* the comparator (a, b) => new Date(a.date).getTime() - new Date(b.date).getTime()
CompareDateAsc(a, b) ==
    LET c == Sub(GetTime(a.date), GetTime(b.date)) IN IF IsNaN(c) THEN 0 ELSE c

\* ECMAScript leaves the order Array.prototype.sort produces to the
\* implementation when the comparator is not consistent, as this one is not
\* once a date is invalid. The browsers the application runs in are
\* represented by two stable algorithms: "runs" is V8's sort of an array
\* shorter than 64 (the leading run is found, reversed if it is strictly
\* descending, and the other elements are placed by binary insertion);
\* "insertion" places every element after the leading elements that do not
\* compare greater than it.
SortImpls == {"runs", "insertion"}

\* the results of the comparator on the elements of list, by position
ComparisonsDateDesc(list) ==
    [i \in 1..Len(list) |-> [j \in 1..Len(list) |-> CompareDateDesc(list[i], list[j])]]

ComparisonsDateAsc(list) ==
    [i \in 1..Len(list) |-> [j \in 1..Len(list) |-> CompareDateAsc(list[i], list[j])]]

RECURSIVE RunEnd(_, _, _, _)
\* the last place of the run that starts the work array and reaches place k
RunEnd(work, cmp, descending, k) ==
    IF k = Len(work) THEN k
    ELSE LET order == cmp[work[k + 1]][work[k]] IN
         IF (descending /\ order >= 0) \/ (~descending /\ order < 0) THEN k
         ELSE RunEnd(work, cmp, descending, k + 1)

\* the work array with its leading run made ascending, and the length of
\* that run
CountAndMakeRun(work, cmp) ==
    IF Len(work) < 2 THEN [work |-> work, run |-> Len(work)]
    ELSE LET descending == cmp[work[2]][work[1]] < 0
             run == RunEnd(work, cmp, descending, 2)
         IN [work |-> IF descending
                      THEN [k \in 1..Len(work) |->
                              IF k <= run THEN work[run + 1 - k] ELSE work[k]]
                      ELSE work,
             run |-> run]

RECURSIVE InsertionPlace(_, _, _, _, _)
\* the binary search of the place of pivot among the places left..right-1
InsertionPlace(work, cmp, pivot, left, right) ==
    IF left >= right THEN left
    ELSE LET mid == left + ((right - left) \div 2) IN
         IF cmp[pivot][work[mid]] < 0
         THEN InsertionPlace(work, cmp, pivot, left, mid)
         ELSE InsertionPlace(work, cmp, pivot, mid + 1, right)

RECURSIVE BinaryInsertionSort(_, _, _)
\* the work array after the elements from place start on are inserted into
\* the sorted places before them
BinaryInsertionSort(work, cmp, start) ==
    IF start > Len(work) THEN work
    ELSE LET pivot == work[start]
             place == InsertionPlace(work, cmp, pivot, 1, start)
         IN BinaryInsertionSort(
                [k \in 1..Len(work) |->
                    IF k < place \/ k > start THEN work[k]
                    ELSE IF k = place THEN pivot ELSE work[k - 1]],
                cmp, start + 1)

\* the positions of the elements in the order the "runs" algorithm leaves
SortRuns(n, cmp) ==
    LET made == CountAndMakeRun([k \in 1..n |-> k], cmp)
    IN BinaryInsertionSort(made.work, cmp, made.run + 1)

RECURSIVE InsertAfterNotGreater(_, _, _)
InsertAfterNotGreater(sorted, cmp, x) ==
    IF sorted = <<>> THEN <<x>>
    ELSE IF cmp[Head(sorted)][x] <= 0
         THEN <<Head(sorted)>> \o InsertAfterNotGreater(Tail(sorted), cmp, x)
         ELSE <<x>> \o sorted

RECURSIVE SortInsertion(_, _)
\* the positions of the elements in the order the "insertion" algorithm leaves
SortInsertion(n, cmp) ==
    IF n = 0 THEN <<>>
    ELSE InsertAfterNotGreater(SortInsertion(n - 1, cmp), cmp, n)

\* Array.prototype.sort with the comparisons cmp, in the browser of the state
SortWith(list, cmp) ==
    LET order == IF sortImpl = "runs" THEN SortRuns(Len(list), cmp)
                 ELSE SortInsertion(Len(list), cmp)
    IN [k \in 1..Len(list) |-> list[order[k]]]

\* Array.prototype.sort with CompareDateDesc
SortDateDesc(list) == SortWith(list, ComparisonsDateDesc(list))

\* Array.prototype.sort with CompareDateAsc
SortDateAsc(list) == SortWith(list, ComparisonsDateAsc(list))

---------------------------------------------------------------------------
(* Persistence: getStorageKey, the IndexedDB request queue, loadData *)

NoName == <<>>

CollectionTypes == {"expenses", "incomes", "bankAccounts"}

\* the organisation names of the model; LoginScreen passes trimmed,
\* upper-cased, non-empty names
OrgNames == {<<"A">>, <<"A", Space, "B">>, <<"A", "_", "B">>}

\* getStorageKey(type, name): `condo_${type}_${name.replace(/\s/g, '_')}`
getStorageKey(type, name) == <<type, ReplaceSpaces(name)>>

StorageKeys == {getStorageKey(t, n) : t \in CollectionTypes, n \in OrgNames}

\* idb-keyval get(key) / set(key, value) as a request handed to IndexedDB;
\* awaited tells that loadData is suspended on it
GetRequest(key) == [op |-> "get", key |-> key, val |-> <<>>, awaited |-> TRUE]
SetRequest(key, val, awaited) ==
    [op |-> "set", key |-> key, val |-> val, awaited |-> awaited]

\* the save effects of one render, for the collections whose state changed
SaveEffects(name, changed, exps, incs, accs) ==
    IF name = NoName THEN <<>>
    ELSE (IF "expenses" \in changed
          THEN <<SetRequest(getStorageKey("expenses", name), exps, FALSE)>> ELSE <<>>)
      \o (IF "incomes" \in changed
          THEN <<SetRequest(getStorageKey("incomes", name), incs, FALSE)>> ELSE <<>>)
      \o (IF "bankAccounts" \in changed
          THEN <<SetRequest(getStorageKey("bankAccounts", name), accs, FALSE)>> ELSE <<>>)

---------------------------------------------------------------------------
(* The clock.  now = [date, hour]: the UTC calendar day and hour of day *)

\* new Date().toISOString().split('T')[0]
Today(clock) == clock.date

\* new Date().getFullYear()
CurrentYear(clock) == YearOf(clock.date)

\* new Date().getTime(), in hours
NowTime(clock) == GetTime(clock.date) + clock.hour

\* the calendar day after d
NextDay(d) ==
    IF DayOf(d) < DaysInMonth(YearOf(d), MonthOf(d)) THEN d + 1
    ELSE IF MonthOf(d) < 11 THEN YearOf(d) * 10000 + (MonthOf(d) + 2) * 100 + 1
    ELSE (YearOf(d) + 1) * 10000 + 101

---------------------------------------------------------------------------
(* Dashboard (src/unnamed/part_004) *)

Max(S) == CHOOSE x \in S : \A y \in S : y <= x

\* allYears[0]: the latest year among the records' years and the current year
DashboardInitialYear(exps, incs, clock) ==
    Max({YearOf(e.date) : e \in Range(exps)} \cup {YearOf(i.date) : i \in Range(incs)}
        \cup {CurrentYear(clock)})

\* overdueExpenses, as computed when the memo is (re)computed at clock
OverdueExpenses(exps, clock) ==
    SortDateAsc(FilterSeq(exps, {e \in Range(exps) :
                                   e.status = "unpaid" /\ e.date < Today(clock)}))

\* Math.ceil(x / 24) for x >= 0
CeilDays(hours) == (hours + 23) \div 24

Abs(x) == IF x < 0 THEN 0 - x ELSE x

\* getDaysOverdue(dateString), evaluated at clock
getDaysOverdue(d, clock) == CeilDays(Abs(NowTime(clock) - GetTime(d)))

---------------------------------------------------------------------------
(* ReportView (src/components/ReportView.tsx) *)

\* allYears[0] of the report
ReportInitialYear(exps, clock) ==
    Max({YearOf(e.date) : e \in Range(exps)} \cup {CurrentYear(clock)})

---------------------------------------------------------------------------
(* Local state of the views.  A component's state exists while the view   *)
(* is rendered; it is created at mount with the values below and is held   *)
(* at its default while the component is not mounted.                      *)

Views == {"dashboard", "add", "list", "addIncome", "listIncome",
          "listBankAccounts", "addBankAccount", "reports"}

\* ExpenseList: searchTerm, startDate, endDate, selectedCategory,
\* selectedAccountId, paymentStatus, all ''
NoFilter == [searchTerm |-> <<>>, startDate |-> 0, endDate |-> 0,
             selectedCategory |-> "", selectedAccountId |-> 0, paymentStatus |-> ""]

NoExport == [format |-> "none", list |-> <<>>, rows |-> <<>>, foot |-> <<>>, total |-> 0]

\* whether the screen of `view` is rendered
Rendered(name, loading, view, which) == name # NoName /\ ~loading /\ view = which

\* the local state of every view once the app shows `view`
MountLocal(name, loading, view, exps, incs, clock) ==
    /\ pendingExpenseData' = None
    /\ showDuplicateWarning' = FALSE
    /\ isImporting' = FALSE
    /\ importCandidates' = <<>>
    /\ showImportReview' = FALSE
    /\ listFilter' = NoFilter
    /\ lastExport' = NoExport
    /\ selectedYear' = IF Rendered(name, loading, view, "dashboard")
                       THEN DashboardInitialYear(exps, incs, clock) ELSE 0
    /\ overdueMemo' = IF Rendered(name, loading, view, "dashboard")
                      THEN OverdueExpenses(exps, clock) ELSE <<>>
    /\ reportYear' = IF Rendered(name, loading, view, "reports")
                     THEN ReportInitialYear(exps, clock) ELSE 0
    /\ groupMode' = "month"

localVars == <<formVars, importVars, listVars, selectedYear, overdueMemo, reportVars>>

---------------------------------------------------------------------------
(* App.tsx: collection handlers (the functional updates of setExpenses,    *)
(* setIncomes, setBankAccounts)                                            *)

\* prev.map(e => e.id === updated.id ? updated : e)
ReplaceById(prev, updated) ==
    [i \in 1..Len(prev) |-> IF prev[i].id = updated.id THEN updated ELSE prev[i]]

\* prev.filter(e => e.id !== id)
RemoveById(prev, id) == FilterSeq(prev, {e \in Range(prev) : e.id # id})

\* an add that puts the record into the collection twice
handleAddExpenseTwice(prev, expense) == SortDateDesc(<<expense, expense>> \o prev)

handleAddExpense(prev, expense) == SortDateDesc(<<expense>> \o prev)
handleUpdateExpense(prev, updated) == SortDateDesc(ReplaceById(prev, updated))
handleDeleteExpense(prev, id) == RemoveById(prev, id)

handleAddIncome(prev, income) == SortDateDesc(<<income>> \o prev)
handleUpdateIncome(prev, updated) == SortDateDesc(ReplaceById(prev, updated))
handleDeleteIncome(prev, id) == RemoveById(prev, id)

handleAddBankAccount(prev, account) == <<account>> \o prev
handleUpdateBankAccount(prev, updated) == ReplaceById(prev, updated)
handleDeleteBankAccount(prev, id) == RemoveById(prev, id)

\* the user can act: an organisation is logged in and the spinner is gone
Interactive == condoName # NoName /\ ~isLoading

\* no modal dialog covers the screen
NoModal == ~showDuplicateWarning /\ ~showImportReview

\* the new collections are committed and the save effects of the render run
Commit(exps, incs, accs, changed) ==
    /\ expenses' = exps
    /\ incomes' = incs
    /\ bankAccounts' = accs
    /\ idbQueue' = idbQueue \o SaveEffects(condoName, changed, exps, incs, accs)
    /\ UNCHANGED <<idb, legacy, loadPc, idbWritable, sortImpl>>
    /\ pristine' = FALSE
    /\ UNCHANGED loginSnapshot

\* setCurrentView(view): a change of view unmounts the old screen and mounts
\* the new one; the same view keeps its component and its state
GoView(view, exps, incs) ==
    /\ currentView' = view
    /\ IF view = currentView THEN UNCHANGED localVars
       ELSE MountLocal(condoName, FALSE, view, exps, incs, now)

---------------------------------------------------------------------------
(* Login, logout, loadData and the IndexedDB requests *)

\* LoginScreen.handleInputChange / handleSubmit, App.handleLogin and the
\* effects of the render that follows: loadData runs to its first await and
\* the three save effects run with the collections of that render
LoginSubmit(typed) ==
    LET name == Trim(ToUpper(typed)) IN
    /\ condoName = NoName
    /\ name # <<>>
    /\ condoName' = name
    /\ isLoading' = TRUE
    /\ loadPc' = "expenses"
    /\ idbQueue' = idbQueue \o <<GetRequest(getStorageKey("expenses", name))>>
                     \o SaveEffects(name, CollectionTypes, expenses, incomes, bankAccounts)
    /\ MountLocal(name, TRUE, currentView, expenses, incomes, now)
    /\ loginSnapshot' = IF idbQueue = <<>>
                        THEN Some([t \in CollectionTypes |-> idb[getStorageKey(t, name)]])
                        ELSE None
    /\ pristine' = TRUE
    /\ UNCHANGED <<currentView, ledgerVars, editVars, idb, legacy, idbWritable, sortImpl, now, nextId>>
    /\ alertText' = ""
    /\ UNCHANGED <<lastWorkbook, lastBackup>>

\* App.handleLogout and loadData for a null condoName
Logout ==
    /\ Interactive
    /\ NoModal
    /\ condoName' = NoName
    /\ currentView' = "dashboard"
    /\ editingExpense' = None
    /\ editingIncome' = None
    /\ editingBankAccount' = None
    /\ expenses' = <<>>
    /\ incomes' = <<>>
    /\ bankAccounts' = <<>>
    /\ MountLocal(NoName, FALSE, "dashboard", <<>>, <<>>, now)
    /\ loginSnapshot' = None
    /\ pristine' = FALSE
    /\ UNCHANGED <<isLoading, storeVars, now, nextId>>
    /\ alertText' = ""
    /\ UNCHANGED <<lastWorkbook, lastBackup>>

\* loadData resumes with the collection of `type` it loaded
LoadDeliver(type, coll, rest) ==
    /\ type = "expenses" =>
         /\ expenses' = coll
         /\ UNCHANGED <<incomes, bankAccounts>>
         /\ idbQueue' = rest \o <<GetRequest(getStorageKey("incomes", condoName))>>
                          \o SaveEffects(condoName, {"expenses"}, coll, incomes, bankAccounts)
         /\ loadPc' = "incomes"
         /\ UNCHANGED <<isLoading, localVars>>
    /\ type = "incomes" =>
         /\ incomes' = coll
         /\ UNCHANGED <<expenses, bankAccounts>>
         /\ idbQueue' = rest \o <<GetRequest(getStorageKey("bankAccounts", condoName))>>
                          \o SaveEffects(condoName, {"incomes"}, expenses, coll, bankAccounts)
         /\ loadPc' = "bankAccounts"
         /\ UNCHANGED <<isLoading, localVars>>
    /\ type = "bankAccounts" =>
         /\ bankAccounts' = coll
         /\ UNCHANGED <<expenses, incomes>>
         /\ idbQueue' = rest \o SaveEffects(condoName, {"bankAccounts"}, expenses, incomes, coll)
         /\ loadPc' = "idle"
         /\ isLoading' = FALSE
         /\ MountLocal(condoName, FALSE, currentView, expenses, incomes, now)

\* the store answers as its condition lets expect: reads succeed, writes
\* succeed unless the quota is used up
StoreAnswers(ok) ==
    /\ idbQueue # <<>>
    /\ ok <=> (Head(idbQueue).op = "get" \/ idbWritable)

\* IndexedDB executes the oldest request; ok tells whether it succeeds.
\* A get resumes loadData; a set issued by a save effect only changes the
\* store; a set awaited by loadData (migration from localStorage) resumes it.
StoreStep(ok) ==
    /\ idbQueue # <<>>
    /\ Head(idbQueue).op = "set" /\ ~idbWritable => ~ok
    /\ LET r == Head(idbQueue)
           rest == Tail(idbQueue)
           type == r.key[1]
       IN
       /\ idb' = IF r.op = "set" /\ ok THEN [idb EXCEPT ![r.key] = Some(r.val)] ELSE idb
       /\ IF ~r.awaited
          THEN /\ idbQueue' = rest
               /\ UNCHANGED <<isLoading, loadPc, ledgerVars, localVars>>
          ELSE IF r.op = "get" /\ ~ok
          THEN \* the catch and finally blocks of loadData
               /\ idbQueue' = rest
               /\ isLoading' = FALSE
               /\ loadPc' = "idle"
               /\ UNCHANGED ledgerVars
               /\ MountLocal(condoName, FALSE, currentView, expenses, incomes, now)
          ELSE IF r.op = "get" /\ ~IsSome(idb[r.key]) /\ IsSome(legacy[r.key])
          THEN \* migration: await set(key, JSON.parse(local))
               /\ idbQueue' = rest \o <<SetRequest(r.key, Get(legacy[r.key]), TRUE)>>
               /\ UNCHANGED <<isLoading, loadPc, ledgerVars, localVars>>
          ELSE IF r.op = "get"
          THEN LoadDeliver(type, IF IsSome(idb[r.key]) THEN Get(idb[r.key]) ELSE <<>>, rest)
          ELSE LoadDeliver(type, r.val, rest)
    /\ pristine' = (pristine /\ ok)
    /\ UNCHANGED <<condoName, currentView, editVars, legacy, idbWritable, sortImpl, now, nextId,
                   loginSnapshot>>
    /\ alertText' = ""
    /\ UNCHANGED <<lastWorkbook, lastBackup>>

---------------------------------------------------------------------------
(* Bounds of the exploration *)

\* records per collection
MaxExpenses == 2
MaxIncomes == 1
MaxAccounts == 1
\* ids handed out by generateId / crypto.randomUUID
MaxId == 2
\* IndexedDB requests issued by save effects and not yet executed
MaxPending == 1

CanCommit == Len(idbQueue) < MaxPending
CanGenerate == nextId <= MaxId

\* a === b on numbers: NaN is not equal to itself
NumEq(a, b) == ~IsNaN(a) /\ ~IsNaN(b) /\ a = b

\* utils.generateId (not part of the sources at hand) and
\* crypto.randomUUID: an id no record has been given before
generateId(counter) == counter

---------------------------------------------------------------------------
(* App.tsx navigation *)

\* App.handleNavClick
NavClick(view) ==
    /\ Interactive
    /\ NoModal
    /\ view \in Views
    /\ editingExpense' = IF view = "add" THEN None ELSE editingExpense
    /\ editingIncome' = IF view = "addIncome" THEN None ELSE editingIncome
    /\ editingBankAccount' = IF view = "addBankAccount" THEN None ELSE editingBankAccount
    /\ GoView(view, expenses, incomes)
    /\ UNCHANGED <<condoName, isLoading, ledgerVars, storeVars, now, nextId, histVars>>
    /\ alertText' = ""
    /\ UNCHANGED <<lastWorkbook, lastBackup>>

---------------------------------------------------------------------------
(* ExpenseForm (src/unnamed/part_002) and the expense handlers of App.tsx *)

\* const isEditing = !!initialData && !initialData.description.endsWith('(Copia)')
isEditing(initialData) ==
    IsSome(initialData) /\ ~EndsWithCopia(Get(initialData).description)

\* the browser's constraint validation of the form: description required,
\* amount a number >= 0 in steps of 0.01, date required
ExpenseFormValid(f) ==
    /\ f.description # <<>>
    /\ ~IsNaN(f.amount)
    /\ f.amount >= 0
    /\ f.date # 0
    /\ f.bankAccountId \in {0} \cup {a.id : a \in Range(bankAccounts)}

\* a duplicate check that compares the descriptions as they were typed
isDuplicateAsTyped(existingExpenses, f) ==
    \E i \in 1..Len(existingExpenses) :
        /\ NumEq(existingExpenses[i].amount, f.amount)
        /\ existingExpenses[i].date = f.date
        /\ existingExpenses[i].description = f.description

\* the duplicate check of handleSubmit
isDuplicate(existingExpenses, f) ==
    \E i \in 1..Len(existingExpenses) :
        /\ NumEq(existingExpenses[i].amount, f.amount)
        /\ existingExpenses[i].date = f.date
        /\ Trim(ToLower(existingExpenses[i].description)) = Trim(ToLower(f.description))

\* ExpenseForm.processSubmission with App.handleUpdateExpense / handleAddExpense
processSubmission(data, editing) ==
    /\ CanCommit
    /\ IF editing
       THEN /\ Commit(handleUpdateExpense(expenses, data), incomes, bankAccounts, {"expenses"})
            /\ editingExpense' = None
            /\ GoView("list", handleUpdateExpense(expenses, data), incomes)
       ELSE /\ Len(expenses) < MaxExpenses
            /\ Commit(handleAddExpense(expenses, data), incomes, bankAccounts, {"expenses"})
            /\ UNCHANGED editingExpense
            /\ GoView("list", handleAddExpense(expenses, data), incomes)
    /\ UNCHANGED <<condoName, isLoading, editingIncome, editingBankAccount, now>>

\* ExpenseForm.handleSubmit for the form filled as f
ExpenseFormSubmit(f) ==
    /\ Interactive
    /\ currentView = "add"
    /\ ~showDuplicateWarning
    /\ ExpenseFormValid(f)
    /\ LET editing == isEditing(editingExpense)
           data == [id |-> IF editing THEN Get(editingExpense).id ELSE generateId(nextId),
                    description |-> f.description,
                    amount |-> f.amount,
                    date |-> f.date,
                    category |-> f.category,
                    bankAccountId |-> f.bankAccountId,
                    status |-> f.status,
                    attachments |-> f.attachments]
       IN
       /\ editing \/ CanGenerate
       /\ nextId' = IF editing THEN nextId ELSE nextId + 1
       /\ IF ~editing /\ Len(expenses) > 0 /\ isDuplicate(expenses, f)
          THEN /\ pendingExpenseData' = Some(data)
               /\ showDuplicateWarning' = TRUE
               /\ UNCHANGED <<appVars, ledgerVars, editVars, storeVars, importVars,
                              listVars, now, dashVars, reportVars, histVars>>
          ELSE processSubmission(data, editing)
    /\ alertText' = ""
    /\ UNCHANGED <<lastWorkbook, lastBackup>>

\* ExpenseForm.confirmDuplicateSubmission
ConfirmDuplicate ==
    /\ Interactive
    /\ currentView = "add"
    /\ showDuplicateWarning
    /\ IsSome(pendingExpenseData)
    /\ processSubmission(Get(pendingExpenseData), isEditing(editingExpense))
    /\ UNCHANGED nextId
    /\ alertText' = ""
    /\ UNCHANGED <<lastWorkbook, lastBackup>>

\* the cancel button of the duplicate dialog
CancelDuplicate ==
    /\ Interactive
    /\ currentView = "add"
    /\ showDuplicateWarning
    /\ showDuplicateWarning' = FALSE
    /\ pendingExpenseData' = None
    /\ UNCHANGED <<appVars, ledgerVars, editVars, storeVars, importVars, listVars,
                   now, dashVars, reportVars, nextId, histVars>>
    /\ alertText' = ""
    /\ UNCHANGED <<lastWorkbook, lastBackup>>

\* onCancel of the ExpenseForm
CancelExpenseForm ==
    /\ Interactive
    /\ currentView = "add"
    /\ ~showDuplicateWarning
    /\ editingExpense' = None
    /\ GoView("list", expenses, incomes)
    /\ UNCHANGED <<condoName, isLoading, ledgerVars, editingIncome, editingBankAccount,
                   storeVars, now, nextId, histVars>>
    /\ alertText' = ""
    /\ UNCHANGED <<lastWorkbook, lastBackup>>

\* App.handleStartEditExpense for the i-th row of the list
StartEditExpense(i) ==
    /\ Interactive
    /\ currentView = "list"
    /\ NoModal
    /\ i \in 1..Len(expenses)
    /\ editingExpense' = Some(expenses[i])
    /\ GoView("add", expenses, incomes)
    /\ UNCHANGED <<condoName, isLoading, ledgerVars, editingIncome, editingBankAccount,
                   storeVars, now, nextId, histVars>>
    /\ alertText' = ""
    /\ UNCHANGED <<lastWorkbook, lastBackup>>

\* a duplication whose draft keeps the id and the date of the original
StartDuplicateExpenseSameId(i) ==
    /\ Interactive
    /\ currentView = "list"
    /\ NoModal
    /\ i \in 1..Len(expenses)
    /\ CanGenerate
    /\ editingExpense' = Some([expenses[i] EXCEPT
                                 !.description = expenses[i].description \o <<Space, Copia>>,
                                 !.attachments = <<>>])
    /\ nextId' = nextId + 1
    /\ GoView("add", expenses, incomes)
    /\ UNCHANGED <<condoName, isLoading, ledgerVars, editingIncome, editingBankAccount,
                   storeVars, now, histVars>>
    /\ alertText' = ""
    /\ UNCHANGED <<lastWorkbook, lastBackup>>

\* App.handleStartDuplicateExpense for the i-th row of the list
StartDuplicateExpense(i) ==
    /\ Interactive
    /\ currentView = "list"
    /\ NoModal
    /\ i \in 1..Len(expenses)
    /\ CanGenerate
    /\ editingExpense' = Some([expenses[i] EXCEPT
                                 !.id = generateId(nextId),
                                 !.description = expenses[i].description \o <<Space, Copia>>,
                                 !.date = Today(now),
                                 !.attachments = <<>>])
    /\ nextId' = nextId + 1
    /\ GoView("add", expenses, incomes)
    /\ UNCHANGED <<condoName, isLoading, ledgerVars, editingIncome, editingBankAccount,
                   storeVars, now, histVars>>
    /\ alertText' = ""
    /\ UNCHANGED <<lastWorkbook, lastBackup>>

\* App.handleDeleteExpense for the i-th row of the list
DeleteExpense(i) ==
    /\ Interactive
    /\ currentView = "list"
    /\ NoModal
    /\ CanCommit
    /\ i \in 1..Len(expenses)
    /\ Commit(handleDeleteExpense(expenses, expenses[i].id), incomes, bankAccounts, {"expenses"})
    /\ UNCHANGED <<appVars, editVars, localVars, now, nextId>>
    /\ alertText' = ""
    /\ UNCHANGED <<lastWorkbook, lastBackup>>

---------------------------------------------------------------------------
(* ExpenseList and IncomeList (src/unnamed/part_001): file import.  Only   *)
(* one of the two lists is mounted at a time; isImporting,                 *)
(* importCandidates and showImportReview are the state of the mounted one. *)

ListViews == {"list", "listIncome"}

\* b => b.name === bankName, bankAccounts.find(...)?.id
FindAccountIdByName(accounts, name) ==
    IF \E i \in 1..Len(accounts) : accounts[i].name = name
    THEN accounts[CHOOSE i \in 1..Len(accounts) :
                     /\ accounts[i].name = name
                     /\ \A j \in 1..(i - 1) : accounts[j].name # name].id
    ELSE 0

\* the record the XML branch of ExpenseList.handleImportFile builds from one
\* <expense> element; a missing child is 0, "" or <<>>
xmlExpense(item, counter, accounts, clock) ==
    [id |-> IF item.id # 0 THEN item.id ELSE generateId(counter),
     description |-> item.description,
     amount |-> IF IsSome(item.amount) THEN Get(item.amount) ELSE 0,
     category |-> IF item.category # "" THEN item.category ELSE "Varie",
     date |-> IF item.date # 0 THEN item.date ELSE Today(clock),
     status |-> IF item.status # "" THEN item.status ELSE "unpaid",
     bankAccountId |-> FindAccountIdByName(accounts, item.bankAccount),
     attachments |-> <<>>]

\* the record the XML branch of IncomeList.handleImportFile builds from one
\* <income> element
xmlIncome(item, counter, clock) ==
    [id |-> IF item.id # 0 THEN item.id ELSE generateId(counter),
     description |-> item.description,
     amount |-> IF IsSome(item.amount) THEN Get(item.amount) ELSE 0,
     category |-> IF item.category # "" THEN item.category ELSE "Quote Condominiali",
     date |-> IF item.date # 0 THEN item.date ELSE Today(clock),
     bankAccountId |-> 0]

\* if (desc && amount > 0)
xmlAccepted(record) == record.description # <<>> /\ Positive(record.amount)

RECURSIVE importXmlExpenses(_, _, _, _, _)
\* Array.from(items).forEach(...) of the expense list: the collection and the
\* id counter after the elements of the file
importXmlExpenses(items, prev, counter, accounts, clock) ==
    IF items = <<>> THEN [list |-> prev, counter |-> counter]
    ELSE LET record == xmlExpense(Head(items), counter, accounts, clock)
             after == IF Head(items).id # 0 THEN counter ELSE counter + 1
         IN importXmlExpenses(Tail(items),
                IF xmlAccepted(record) THEN handleAddExpense(prev, record) ELSE prev,
                after, accounts, clock)

RECURSIVE importXmlIncomes(_, _, _, _)
importXmlIncomes(items, prev, counter, clock) ==
    IF items = <<>> THEN [list |-> prev, counter |-> counter]
    ELSE LET record == xmlIncome(Head(items), counter, clock)
             after == IF Head(items).id # 0 THEN counter ELSE counter + 1
         IN importXmlIncomes(Tail(items),
                IF xmlAccepted(record) THEN handleAddIncome(prev, record) ELSE prev,
                after, clock)

\* handleImportFile up to its first await
ImportStart ==
    /\ Interactive
    /\ currentView \in ListViews
    /\ NoModal
    /\ ~isImporting
    /\ isImporting' = TRUE
    /\ importCandidates' = <<>>
    /\ UNCHANGED <<appVars, ledgerVars, editVars, storeVars, formVars, showImportReview,
                   listVars, now, dashVars, reportVars, nextId, histVars>>
    /\ alertText' = ""
    /\ UNCHANGED <<lastWorkbook, lastBackup>>

\* handleImportFile resumed with the text of an .xml file
ImportXml(items) ==
    /\ Interactive
    /\ currentView \in ListViews
    /\ isImporting
    /\ CanCommit
    /\ isImporting' = FALSE
    /\ IF currentView = "list"
       THEN LET r == importXmlExpenses(items, expenses, nextId, bankAccounts, now) IN
            /\ Len(r.list) <= MaxExpenses
            /\ r.counter <= MaxId + 1
            /\ nextId' = r.counter
            /\ IF r.list = expenses
               THEN UNCHANGED <<ledgerVars, storeVars, histVars>>
               ELSE Commit(r.list, incomes, bankAccounts, {"expenses"})
       ELSE LET r == importXmlIncomes(items, incomes, nextId, now) IN
            /\ Len(r.list) <= MaxIncomes
            /\ r.counter <= MaxId + 1
            /\ nextId' = r.counter
            /\ IF r.list = incomes
               THEN UNCHANGED <<ledgerVars, storeVars, histVars>>
               ELSE Commit(expenses, r.list, bankAccounts, {"incomes"})
    /\ UNCHANGED <<appVars, editVars, formVars, importCandidates, showImportReview,
                   listVars, now, dashVars, reportVars>>
    /\ alertText' = "importSuccess"
    /\ UNCHANGED <<lastWorkbook, lastBackup>>

\* a resumption that does not report a failed extraction
ImportAiFinishSilent(result) ==
    /\ Interactive
    /\ currentView \in ListViews
    /\ isImporting
    /\ isImporting' = FALSE
    /\ IF IsSome(result) /\ Len(Get(result)) > 0
       THEN /\ importCandidates' = Get(result)
            /\ showImportReview' = TRUE
       ELSE UNCHANGED <<importCandidates, showImportReview>>
    /\ alertText' = ""
    /\ UNCHANGED <<appVars, ledgerVars, editVars, storeVars, formVars, listVars, now,
                   dashVars, reportVars, nextId, histVars, lastWorkbook, lastBackup>>

\* handleImportFile resumed with the answer of the AI extraction of a .pdf
\* or .docx file: result is <<>> when the extraction threw, else <<list>>
ImportAiFinish(result) ==
    /\ Interactive
    /\ currentView \in ListViews
    /\ isImporting
    /\ isImporting' = FALSE
    /\ IF IsSome(result) /\ Len(Get(result)) > 0
       THEN /\ importCandidates' = Get(result)
            /\ showImportReview' = TRUE
       ELSE UNCHANGED <<importCandidates, showImportReview>>
    /\ UNCHANGED <<appVars, ledgerVars, editVars, storeVars, formVars, listVars, now,
                   dashVars, reportVars, nextId, histVars>>
    /\ alertText' = IF ~IsSome(result) THEN "importError"
                    ELSE IF Len(Get(result)) = 0 THEN "noDataImport" ELSE ""
    /\ UNCHANGED <<lastWorkbook, lastBackup>>

\* updateCandidate(index, field, value)
updateCandidate(prev, index, field, value) ==
    [i \in 1..Len(prev) |-> IF i = index THEN [prev[i] EXCEPT ![field] = value] ELSE prev[i]]

UpdateCandidate(index, field, value) ==
    /\ Interactive
    /\ showImportReview
    /\ index \in 1..Len(importCandidates)
    /\ importCandidates' = updateCandidate(importCandidates, index, field, value)
    /\ UNCHANGED <<appVars, ledgerVars, editVars, storeVars, formVars, isImporting,
                   showImportReview, listVars, now, dashVars, reportVars, nextId, histVars>>
    /\ alertText' = ""
    /\ UNCHANGED <<lastWorkbook, lastBackup>>

\* removeCandidate(index)
RemoveCandidate(index) ==
    /\ Interactive
    /\ showImportReview
    /\ index \in 1..Len(importCandidates)
    /\ importCandidates' = [i \in 1..(Len(importCandidates) - 1) |->
                              IF i < index THEN importCandidates[i] ELSE importCandidates[i + 1]]
    /\ showImportReview' = (Len(importCandidates) > 1)
    /\ UNCHANGED <<appVars, ledgerVars, editVars, storeVars, formVars, isImporting,
                   listVars, now, dashVars, reportVars, nextId, histVars>>
    /\ alertText' = ""
    /\ UNCHANGED <<lastWorkbook, lastBackup>>

\* the close and cancel buttons of the review dialog
CloseImportReview ==
    /\ Interactive
    /\ showImportReview
    /\ showImportReview' = FALSE
    /\ UNCHANGED <<appVars, ledgerVars, editVars, storeVars, formVars, isImporting,
                   importCandidates, listVars, now, dashVars, reportVars, nextId, histVars>>
    /\ alertText' = ""
    /\ UNCHANGED <<lastWorkbook, lastBackup>>

RECURSIVE saveExpenseCandidates(_, _, _)
\* importCandidates.forEach(cand => onAdd({id: generateId(), ...})) of ExpenseList
saveExpenseCandidates(cands, prev, counter) ==
    IF cands = <<>> THEN prev
    ELSE saveExpenseCandidates(Tail(cands),
            handleAddExpense(prev, [id |-> generateId(counter),
                                    description |-> Head(cands).description,
                                    amount |-> Head(cands).amount,
                                    date |-> Head(cands).date,
                                    category |-> Head(cands).category,
                                    status |-> "unpaid",
                                    bankAccountId |-> 0,
                                    attachments |-> <<>>]),
            counter + 1)

RECURSIVE saveIncomeCandidates(_, _, _)
\* importCandidates.forEach(cand => onAdd({id: generateId(), ...})) of IncomeList
saveIncomeCandidates(cands, prev, counter) ==
    IF cands = <<>> THEN prev
    ELSE saveIncomeCandidates(Tail(cands),
            handleAddIncome(prev, [id |-> generateId(counter),
                                   description |-> Head(cands).description,
                                   amount |-> Head(cands).amount,
                                   date |-> Head(cands).date,
                                   category |-> Head(cands).category,
                                   bankAccountId |-> 0]),
            counter + 1)

\* handleSaveImportCandidates of the mounted list
SaveImportCandidates ==
    /\ Interactive
    /\ currentView \in ListViews
    /\ showImportReview
    /\ CanCommit
    /\ nextId + Len(importCandidates) <= MaxId + 1
    /\ nextId' = nextId + Len(importCandidates)
    /\ showImportReview' = FALSE
    /\ importCandidates' = <<>>
    /\ IF importCandidates = <<>>
       THEN UNCHANGED <<ledgerVars, storeVars, histVars>>
       ELSE IF currentView = "list"
       THEN /\ Len(expenses) + Len(importCandidates) <= MaxExpenses
            /\ Commit(saveExpenseCandidates(importCandidates, expenses, nextId),
                      incomes, bankAccounts, {"expenses"})
       ELSE /\ Len(incomes) + Len(importCandidates) <= MaxIncomes
            /\ Commit(expenses, saveIncomeCandidates(importCandidates, incomes, nextId),
                      bankAccounts, {"incomes"})
    /\ UNCHANGED <<appVars, editVars, formVars, isImporting, listVars, now, dashVars,
                   reportVars>>
    /\ alertText' = ""
    /\ UNCHANGED <<lastWorkbook, lastBackup>>

---------------------------------------------------------------------------
(* IncomeForm, IncomeList and the income handlers of App.tsx *)

\* IncomeForm.handleSubmit in single mode (and always when editing)
IncomeFormSubmit(f) ==
    /\ Interactive
    /\ currentView = "addIncome"
    /\ CanCommit
    /\ ~(IsNaN(f.amount) \/ f.amount <= 0)
    /\ Trim(f.description) # <<>>
    /\ f.date # 0
    /\ LET editing == IsSome(editingIncome)
           incomeData == [id |-> IF editing THEN Get(editingIncome).id ELSE generateId(nextId),
                          description |-> f.description,
                          amount |-> f.amount,
                          date |-> f.date,
                          category |-> f.category,
                          bankAccountId |-> 0]
       IN
       /\ editing \/ (CanGenerate /\ Len(incomes) < MaxIncomes)
       /\ nextId' = IF editing THEN nextId ELSE nextId + 1
       /\ IF editing
          THEN /\ Commit(expenses, handleUpdateIncome(incomes, incomeData), bankAccounts,
                         {"incomes"})
               /\ editingIncome' = None
               /\ GoView("listIncome", expenses, handleUpdateIncome(incomes, incomeData))
          ELSE /\ Commit(expenses, handleAddIncome(incomes, incomeData), bankAccounts,
                         {"incomes"})
               /\ UNCHANGED editingIncome
               /\ GoView("listIncome", expenses, handleAddIncome(incomes, incomeData))
    /\ UNCHANGED <<condoName, isLoading, editingExpense, editingBankAccount, now>>
    /\ alertText' = ""
    /\ UNCHANGED <<lastWorkbook, lastBackup>>

\* IncomeForm.handleSubmit in monthly summary mode, for the month m (1..12)
\* of year y and the total typed
IncomeFormSubmitMonthly(y, m, total) ==
    /\ Interactive
    /\ currentView = "addIncome"
    /\ ~IsSome(editingIncome)
    /\ CanCommit
    /\ CanGenerate
    /\ Len(incomes) < MaxIncomes
    /\ ~(IsNaN(total) \/ total <= 0)
    /\ LET incomeData == [id |-> generateId(nextId),
                          description |-> <<"R">>,
                          amount |-> total,
                          date |-> y * 10000 + m * 100 + DaysInMonth(y, m - 1),
                          category |-> "Quote Condominiali",
                          bankAccountId |-> 0]
       IN
       /\ nextId' = nextId + 1
       /\ Commit(expenses, handleAddIncome(incomes, incomeData), bankAccounts, {"incomes"})
       /\ GoView("listIncome", expenses, handleAddIncome(incomes, incomeData))
    /\ UNCHANGED <<condoName, isLoading, editVars, now>>
    /\ alertText' = ""
    /\ UNCHANGED <<lastWorkbook, lastBackup>>

\* onCancel of the IncomeForm
CancelIncomeForm ==
    /\ Interactive
    /\ currentView = "addIncome"
    /\ editingIncome' = None
    /\ GoView("listIncome", expenses, incomes)
    /\ UNCHANGED <<condoName, isLoading, ledgerVars, editingExpense, editingBankAccount,
                   storeVars, now, nextId, histVars>>
    /\ alertText' = ""
    /\ UNCHANGED <<lastWorkbook, lastBackup>>

\* App.handleStartEditIncome for the i-th row of the list
StartEditIncome(i) ==
    /\ Interactive
    /\ currentView = "listIncome"
    /\ NoModal
    /\ i \in 1..Len(incomes)
    /\ editingIncome' = Some(incomes[i])
    /\ GoView("addIncome", expenses, incomes)
    /\ UNCHANGED <<condoName, isLoading, ledgerVars, editingExpense, editingBankAccount,
                   storeVars, now, nextId, histVars>>
    /\ alertText' = ""
    /\ UNCHANGED <<lastWorkbook, lastBackup>>

\* App.handleDeleteIncome for the i-th row of the list
DeleteIncome(i) ==
    /\ Interactive
    /\ currentView = "listIncome"
    /\ NoModal
    /\ CanCommit
    /\ i \in 1..Len(incomes)
    /\ Commit(expenses, handleDeleteIncome(incomes, incomes[i].id), bankAccounts, {"incomes"})
    /\ UNCHANGED <<appVars, editVars, localVars, now, nextId>>
    /\ alertText' = ""
    /\ UNCHANGED <<lastWorkbook, lastBackup>>

---------------------------------------------------------------------------
(* BankAccountForm, BankAccountList (src/types.ts) and the account         *)
(* handlers of App.tsx                                                     *)

\* BankAccountForm.handleSubmit
BankAccountFormSubmit(f) ==
    /\ Interactive
    /\ currentView = "addBankAccount"
    /\ CanCommit
    /\ ~IsNaN(f.initialBalance)
    /\ Trim(f.name) # <<>>
    /\ LET editing == IsSome(editingBankAccount)
           accountData == [id |-> IF editing THEN Get(editingBankAccount).id
                                  ELSE generateId(nextId),
                           name |-> f.name,
                           initialBalance |-> f.initialBalance,
                           iban |-> ToUpper(f.iban)]
           after == IF editing THEN handleUpdateBankAccount(bankAccounts, accountData)
                    ELSE handleAddBankAccount(bankAccounts, accountData)
       IN
       /\ editing \/ (CanGenerate /\ Len(bankAccounts) < MaxAccounts)
       /\ nextId' = IF editing THEN nextId ELSE nextId + 1
       /\ Commit(expenses, incomes, after, {"bankAccounts"})
       /\ editingBankAccount' = IF editing THEN None ELSE editingBankAccount
       /\ GoView("listBankAccounts", expenses, incomes)
    /\ UNCHANGED <<condoName, isLoading, editingExpense, editingIncome, now>>
    /\ alertText' = ""
    /\ UNCHANGED <<lastWorkbook, lastBackup>>

\* onCancel of the BankAccountForm
CancelBankAccountForm ==
    /\ Interactive
    /\ currentView = "addBankAccount"
    /\ editingBankAccount' = None
    /\ GoView("listBankAccounts", expenses, incomes)
    /\ UNCHANGED <<condoName, isLoading, ledgerVars, editingExpense, editingIncome,
                   storeVars, now, nextId, histVars>>
    /\ alertText' = ""
    /\ UNCHANGED <<lastWorkbook, lastBackup>>

\* App.handleStartEditBankAccount for the i-th account shown
StartEditBankAccount(i) ==
    /\ Interactive
    /\ currentView = "listBankAccounts"
    /\ i \in 1..Len(bankAccounts)
    /\ editingBankAccount' = Some(bankAccounts[i])
    /\ GoView("addBankAccount", expenses, incomes)
    /\ UNCHANGED <<condoName, isLoading, ledgerVars, editingExpense, editingIncome,
                   storeVars, now, nextId, histVars>>
    /\ alertText' = ""
    /\ UNCHANGED <<lastWorkbook, lastBackup>>

\* a deletion that also removes the records that refer to the account
DeleteBankAccountCascade(i) ==
    /\ Interactive
    /\ currentView = "listBankAccounts"
    /\ CanCommit
    /\ i \in 1..Len(bankAccounts)
    /\ Commit(FilterSeq(expenses, {e \in Range(expenses) :
                                     e.bankAccountId # bankAccounts[i].id}),
              FilterSeq(incomes, {r \in Range(incomes) :
                                    r.bankAccountId # bankAccounts[i].id}),
              handleDeleteBankAccount(bankAccounts, bankAccounts[i].id),
              {"expenses", "incomes", "bankAccounts"})
    /\ UNCHANGED <<appVars, editVars, localVars, now, nextId>>
    /\ alertText' = ""
    /\ UNCHANGED <<lastWorkbook, lastBackup>>

\* BankAccountList.executeDelete / App.handleDeleteBankAccount, confirmed
DeleteBankAccount(i) ==
    /\ Interactive
    /\ currentView = "listBankAccounts"
    /\ CanCommit
    /\ i \in 1..Len(bankAccounts)
    /\ Commit(expenses, incomes, handleDeleteBankAccount(bankAccounts, bankAccounts[i].id),
              {"bankAccounts"})
    /\ UNCHANGED <<appVars, editVars, localVars, now, nextId>>
    /\ alertText' = ""
    /\ UNCHANGED <<lastWorkbook, lastBackup>>

\* a variant of accountBalances that counts the records of the current
\* year only, as the totals of the Dashboard do
accountBalancesOfYear(accounts, exps, incs) ==
    [id \in {a.id : a \in Range(accounts)} |->
        LET last == CHOOSE i \in 1..Len(accounts) :
                        /\ accounts[i].id = id
                        /\ \A j \in (i + 1)..Len(accounts) : accounts[j].id # id
            totalExpenses == SumAmounts(FilterSeq(exps,
                                 {e \in Range(exps) : /\ e.bankAccountId = id
                                                      /\ YearOf(e.date) = CurrentYear(now)}))
            totalIncomes == SumAmounts(FilterSeq(incs,
                                 {i \in Range(incs) : /\ i.bankAccountId = id
                                                      /\ YearOf(i.date) = CurrentYear(now)}))
        IN Sub(Add(accounts[last].initialBalance, totalIncomes), totalExpenses)]

\* BankAccountList.accountBalances: the Map from account id to balance
\* (balances.set in the order of the accounts: the last one of an id stays)
accountBalances(accounts, exps, incs) ==
    [id \in {a.id : a \in Range(accounts)} |->
        LET last == CHOOSE i \in 1..Len(accounts) :
                        /\ accounts[i].id = id
                        /\ \A j \in (i + 1)..Len(accounts) : accounts[j].id # id
            totalExpenses == SumAmounts(FilterSeq(exps,
                                 {e \in Range(exps) : e.bankAccountId = id}))
            totalIncomes == SumAmounts(FilterSeq(incs,
                                 {i \in Range(incs) : i.bankAccountId = id}))
        IN Sub(Add(accounts[last].initialBalance, totalIncomes), totalExpenses)]

\* the balance the list shows for an account: accountBalances.get(id) || 0
balanceShown(accounts, exps, incs, id) ==
    LET balance == accountBalances(accounts, exps, incs)[id] IN
    IF IsNaN(balance) THEN 0 ELSE balance

---------------------------------------------------------------------------
(* ExpenseList: filters, total and exports *)

\* the letters of a category name, for the text search
CategoryText(c) ==
    IF c = "Varie" THEN <<"V", "a", "r", "i", "e">>
    ELSE IF c = "Manutenzione"
         THEN <<"M", "a", "n", "u", "t", "e", "n", "z", "i", "o", "n", "e">>
    ELSE IF c = "Altro" THEN <<"A", "l", "t", "r", "o">>
    ELSE <<c>>

\* toLowerCase on the letters of the model
LowerText(s) == [i \in 1..Len(s) |-> IF s[i] = "V" THEN "v"
                                      ELSE IF s[i] = "M" THEN "m"
                                      ELSE IF s[i] = "C" THEN "c"
                                      ELSE ToLower(<<s[i]>>)[1]]

\* s.includes(sub)
Includes(s, sub) ==
    \E k \in 0..(Len(s) - Len(sub)) : SubSeq(s, k + 1, k + Len(sub)) = sub

\* bankAccounts.find(acc => acc.id === id)?.name || ''
AccountName(accounts, id) ==
    IF \E i \in 1..Len(accounts) : accounts[i].id = id
    THEN accounts[CHOOSE i \in 1..Len(accounts) :
                     /\ accounts[i].id = id
                     /\ \A j \in 1..(i - 1) : accounts[j].id # id].name
    ELSE <<>>

\* a test whose date bounds leave out the bounds themselves
matchesFilterOpenBounds(e, accounts, f) ==
    LET searchLower == LowerText(f.searchTerm) IN
    /\ \/ Includes(LowerText(e.description), searchLower)
       \/ Includes(LowerText(CategoryText(e.category)), searchLower)
       \/ Includes(LowerText(AccountName(accounts, e.bankAccountId)), searchLower)
    /\ f.startDate # 0 => e.date > f.startDate
    /\ f.endDate # 0 => e.date < f.endDate
    /\ f.selectedCategory # "" => e.category = f.selectedCategory
    /\ f.selectedAccountId # 0 => e.bankAccountId = f.selectedAccountId
    /\ f.paymentStatus # "" => e.status = f.paymentStatus

\* the test of ExpenseList.filteredExpenses
matchesFilter(e, accounts, f) ==
    LET searchLower == LowerText(f.searchTerm) IN
    /\ \/ Includes(LowerText(e.description), searchLower)
       \/ Includes(LowerText(CategoryText(e.category)), searchLower)
       \/ Includes(LowerText(AccountName(accounts, e.bankAccountId)), searchLower)
    /\ f.startDate # 0 => e.date >= f.startDate
    /\ f.endDate # 0 => e.date <= f.endDate
    /\ f.selectedCategory # "" => e.category = f.selectedCategory
    /\ f.selectedAccountId # 0 => e.bankAccountId = f.selectedAccountId
    /\ f.paymentStatus # "" => e.status = f.paymentStatus

filteredExpenses(exps, accounts, f) ==
    FilterSeq(exps, {e \in Range(exps) : matchesFilter(e, accounts, f)})

filteredTotal(exps, accounts, f) == SumAmounts(filteredExpenses(exps, accounts, f))

\* the test of IncomeList.filteredIncomes (the income list has no account
\* and no status filter)
matchesIncomeFilter(i, f) ==
    /\ Includes(LowerText(i.description), LowerText(f.searchTerm))
    /\ f.startDate # 0 => i.date >= f.startDate
    /\ f.endDate # 0 => i.date <= f.endDate
    /\ f.selectedCategory # "" => i.category = f.selectedCategory

filteredIncomes(incs, f) ==
    FilterSeq(incs, {i \in Range(incs) : matchesIncomeFilter(i, f)})

\* two decimal digits
TwoDigits(n) == IF n < 10 THEN "0" \o ToString(n) ELSE ToString(n)

\* Intl.NumberFormat(locale, {style: 'currency', currency: 'EUR'}).format(v)
\* for the Italian locale and amounts below 10000 euro
formatCurrency(v) ==
    IF IsNaN(v) THEN "NaN €"
    ELSE (IF v < 0 THEN "-" ELSE "") \o ToString(Abs(v) \div 100) \o ","
             \o TwoDigits(Abs(v) % 100) \o " €"

\* Number.prototype.toString: the shortest decimal writing of the amount
NumberToString(v) ==
    IF IsNaN(v) THEN "NaN"
    ELSE (IF v < 0 THEN "-" ELSE "") \o ToString(Abs(v) \div 100)
           \o (IF Abs(v) % 100 = 0 THEN ""
               ELSE IF Abs(v) % 10 = 0 THEN "." \o ToString((Abs(v) % 100) \div 10)
               ELSE "." \o TwoDigits(Abs(v) % 100))

\* e.amount.toString().replace('.', ',')
CsvAmount(v) ==
    IF IsNaN(v) THEN "NaN"
    ELSE (IF v < 0 THEN "-" ELSE "") \o ToString(Abs(v) \div 100)
           \o (IF Abs(v) % 100 = 0 THEN ""
               ELSE IF Abs(v) % 10 = 0 THEN "," \o ToString((Abs(v) % 100) \div 10)
               ELSE "," \o TwoDigits(Abs(v) % 100))

\* what an export wrote: the body rows (their amount column, or the
\* elements of an XML file) and the total/footer row if any, with the
\* expenses and the total the list showed at that moment
Exported(format, list, rows, foot, total) ==
    [format |-> format, list |-> list, rows |-> rows, foot |-> foot, total |-> total]

\* handleExportPDF: body rows and foot [['', '', '', 'TOTALE', totalString]]
handleExportPDF(exps, accounts, f) ==
    LET list == filteredExpenses(exps, accounts, f) IN
    Exported("pdf", list, [i \in 1..Len(list) |-> formatCurrency(list[i].amount)],
             Some(formatCurrency(filteredTotal(exps, accounts, f))),
             filteredTotal(exps, accounts, f))

\* handleExportCSV: the header line and one line per filtered expense
handleExportCSV(exps, accounts, f) ==
    LET list == filteredExpenses(exps, accounts, f) IN
    Exported("csv", list, [i \in 1..Len(list) |-> CsvAmount(list[i].amount)], None,
             filteredTotal(exps, accounts, f))

(* XML text *)

DecimalDigits == <<"0", "1", "2", "3", "4", "5", "6", "7", "8", "9">>

IsDigit(ch) == \E k \in 1..Len(DecimalDigits) : DecimalDigits[k] = ch

DigitValue(ch) == (CHOOSE k \in 1..Len(DecimalDigits) : DecimalDigits[k] = ch) - 1

RECURSIVE DecimalChars(_)
\* the decimal digits of a natural number
DecimalChars(n) ==
    IF n < 10 THEN <<DecimalDigits[n + 1]>>
    ELSE DecimalChars(n \div 10) \o <<DecimalDigits[(n % 10) + 1]>>

\* `${amount}`: the characters of NumberToString
NumberChars(v) ==
    IF IsNaN(v) THEN <<"N", "a", "N">>
    ELSE (IF v < 0 THEN <<"-">> ELSE <<>>) \o DecimalChars(Abs(v) \div 100)
           \o (IF Abs(v) % 100 = 0 THEN <<>>
               ELSE IF Abs(v) % 10 = 0 THEN <<".", DecimalDigits[((Abs(v) % 100) \div 10) + 1]>>
               ELSE <<".", DecimalDigits[((Abs(v) % 100) \div 10) + 1],
                      DecimalDigits[(Abs(v) % 10) + 1]>>)

RECURSIVE LeadingDigits(_)
\* the number of digits a text starts with
LeadingDigits(s) ==
    IF s = <<>> \/ ~IsDigit(Head(s)) THEN 0 ELSE 1 + LeadingDigits(Tail(s))

RECURSIVE DigitsValue(_)
DigitsValue(s) ==
    IF s = <<>> THEN 0 ELSE 10 * DigitsValue(SubSeq(s, 1, Len(s) - 1)) + DigitValue(s[Len(s)])

\* parseFloat of a text with at most two decimals: white space, a sign,
\* digits and a fraction are read, what follows is ignored, and a text
\* that does not start with a number is NaN
parseFloat(text) ==
    LET s == TrimLeft(text)
        negative == s # <<>> /\ Head(s) = "-"
        body == IF s # <<>> /\ Head(s) \in {"-", "+"} THEN Tail(s) ELSE s
        whole == LeadingDigits(body)
        rest == SubSeq(body, whole + 1, Len(body))
        decimals == IF rest # <<>> /\ Head(rest) = "." THEN LeadingDigits(Tail(rest)) ELSE 0
        fraction == SubSeq(rest, 2, 1 + decimals)
        cents == 100 * DigitsValue(SubSeq(body, 1, whole))
                   + (IF decimals = 0 THEN 0
                      ELSE IF decimals = 1 THEN 10 * DigitValue(fraction[1])
                      ELSE 10 * DigitValue(fraction[1]) + DigitValue(fraction[2]))
    IN IF whole = 0 /\ decimals = 0 THEN NaN
       ELSE IF negative THEN 0 - cents ELSE cents

RECURSIVE EscapeXml(_, _)
\* s.replace(/&/g, '&amp;') and, for a description, the replacement of
\* < and > as well
EscapeXml(s, angles) ==
    IF s = <<>> THEN <<>>
    ELSE (IF Head(s) = "&" THEN <<"&", "a", "m", "p", ";">>
          ELSE IF angles /\ Head(s) = "<" THEN <<"&", "l", "t", ";">>
          ELSE IF angles /\ Head(s) = ">" THEN <<"&", "g", "t", ";">>
          ELSE <<Head(s)>>) \o EscapeXml(Tail(s), angles)

\* whether the text starts with the characters of prefix
StartsWith(s, prefix) == Len(s) >= Len(prefix) /\ SubSeq(s, 1, Len(prefix)) = prefix

RECURSIVE TextContent(_)
\* textContent of an element whose content is the character data s: the
\* entity references are replaced by the characters they stand for
TextContent(s) ==
    IF s = <<>> THEN <<>>
    ELSE IF StartsWith(s, <<"&", "a", "m", "p", ";">>)
         THEN <<"&">> \o TextContent(SubSeq(s, 6, Len(s)))
    ELSE IF StartsWith(s, <<"&", "l", "t", ";">>)
         THEN <<"<">> \o TextContent(SubSeq(s, 5, Len(s)))
    ELSE IF StartsWith(s, <<"&", "g", "t", ";">>)
         THEN <<">">> \o TextContent(SubSeq(s, 5, Len(s)))
    ELSE <<Head(s)>> \o TextContent(Tail(s))

\* the <expense> element handleExportXML writes for e: the content of its
\* children as it stands in the file
xmlElement(e, accounts) ==
    [id |-> e.id,
     date |-> e.date,
     description |-> EscapeXml(e.description, TRUE),
     category |-> e.category,
     amount |-> NumberChars(e.amount),
     status |-> e.status,
     bankAccount |-> EscapeXml(AccountName(accounts, e.bankAccountId), FALSE)]

\* what handleImportFile reads from an <expense> element of a file that
\* handleExportXML wrote: the textContent of the children, the amount parsed
parseXmlElement(element) ==
    [id |-> element.id,
     description |-> TextContent(element.description),
     amount |-> Some(parseFloat(IF element.amount = <<>> THEN <<"0">> ELSE element.amount)),
     category |-> element.category,
     date |-> element.date,
     status |-> element.status,
     bankAccount |-> TextContent(element.bankAccount)]

\* handleExportXML: one <expense> element per filtered expense
handleExportXML(exps, accounts, f) ==
    LET list == filteredExpenses(exps, accounts, f) IN
    Exported("xml", list, [i \in 1..Len(list) |-> xmlElement(list[i], accounts)], None,
             filteredTotal(exps, accounts, f))

\* the filter controls of the mounted list
SetFilter(f) ==
    /\ Interactive
    /\ currentView \in ListViews
    /\ currentView = "listIncome" => (f.selectedAccountId = 0 /\ f.paymentStatus = "")
    /\ NoModal
    /\ listFilter' = f
    /\ UNCHANGED <<appVars, ledgerVars, editVars, storeVars, formVars, importVars,
                   lastExport, now, dashVars, reportVars, nextId, histVars>>
    /\ alertText' = ""
    /\ UNCHANGED <<lastWorkbook, lastBackup>>

\* the entries of the export menu
Export(format) ==
    /\ Interactive
    /\ currentView = "list"
    /\ NoModal
    /\ format \in {"pdf", "csv", "xml"}
    /\ format \in {"csv", "xml"} => filteredExpenses(expenses, bankAccounts, listFilter) # <<>>
    /\ lastExport' = IF format = "pdf" THEN handleExportPDF(expenses, bankAccounts, listFilter)
                     ELSE IF format = "csv"
                          THEN handleExportCSV(expenses, bankAccounts, listFilter)
                     ELSE handleExportXML(expenses, bankAccounts, listFilter)
    /\ UNCHANGED <<appVars, ledgerVars, editVars, storeVars, formVars, importVars,
                   listFilter, now, dashVars, reportVars, nextId, histVars>>
    /\ alertText' = ""
    /\ UNCHANGED <<lastWorkbook, lastBackup>>

---------------------------------------------------------------------------
(* The clock and the Dashboard (src/unnamed/part_004) *)

\* the days the exploration covers
ClockDays == {20240101, 20240102, 20240103}

\* time passes by half a day; nothing of the application runs
Tick ==
    /\ now.hour < 12 \/ NextDay(now.date) \in ClockDays
    /\ now' = IF now.hour < 12 THEN [now EXCEPT !.hour = 12]
              ELSE [date |-> NextDay(now.date), hour |-> 0]
    /\ UNCHANGED <<appVars, ledgerVars, editVars, storeVars, localVars, nextId, histVars>>
    /\ alertText' = ""
    /\ UNCHANGED <<lastWorkbook, lastBackup>>

\* Dashboard.allYears
DashboardYears(exps, incs, clock) ==
    {YearOf(e.date) : e \in Range(exps)} \cup {YearOf(i.date) : i \in Range(incs)}
        \cup {CurrentYear(clock)}

\* the year selector of the Dashboard: the component renders again, the
\* overdue memo keeps its value because expenses did not change
SelectYear(y) ==
    /\ Interactive
    /\ currentView = "dashboard"
    /\ y \in DashboardYears(expenses, incomes, now)
    /\ selectedYear' = y
    /\ UNCHANGED <<appVars, ledgerVars, editVars, storeVars, formVars, importVars,
                   listVars, now, overdueMemo, reportVars, nextId, histVars>>
    /\ alertText' = ""
    /\ UNCHANGED <<lastWorkbook, lastBackup>>

\* yearlyExpenses / yearlyIncomes: the records of the selected year
yearlyRecords(list, year) == FilterSeq(list, {r \in Range(list) : YearOf(r.date) = year})

\* a total of the expenses that counts the paid ones only
totalAmountOfPaid(exps, year) ==
    SumAmounts(FilterSeq(yearlyRecords(exps, year),
                         {e \in Range(exps) : e.status = "paid"}))

\* totalAmount and totalIncassato of the Dashboard
totalAmount(exps, year) == SumAmounts(yearlyRecords(exps, year))
totalIncassato(incs, year) == SumAmounts(yearlyRecords(incs, year))

\* totalPaidAmount: the paid expenses of the selected year
totalPaidAmount(exps, year) ==
    SumAmounts(FilterSeq(yearlyRecords(exps, year),
                         {e \in Range(exps) : e.status = "paid"}))

\* currentBalance = totalIncassato - totalAmount, the figure of the card
\* Saldo Esercizio
currentBalance(exps, incs, year) == Sub(totalIncassato(incs, year), totalAmount(exps, year))

(* IEEE 754 double precision, as far as p / t * 100 and Math.round need   *)
(* it.  A natural number is written as its binary digits, the least        *)
(* significant first; a double is [bits, exp]: the 53 digits of its        *)
(* significand and the exponent of the least significant of them.          *)

\* the digits of the significand of a double: 52 stored and the leading one
Precision == 52 + 1

RECURSIVE Pow2(_)
Pow2(k) == IF k = 0 THEN 1 ELSE 2 * Pow2(k - 1)

RECURSIVE QuotientBits(_, _, _)
\* the next `count` binary digits of rem / d after the point (rem < d), the
\* most significant first, followed by the remainder left
QuotientBits(rem, d, count) ==
    IF count = 0 THEN <<rem>>
    ELSE IF 2 * rem >= d THEN <<1>> \o QuotientBits(2 * rem - d, d, count - 1)
    ELSE <<0>> \o QuotientBits(2 * rem, d, count - 1)

\* the digits of s in the opposite order
Reverse(s) == [i \in 1..Len(s) |-> s[Len(s) + 1 - i]]

RECURSIVE AddBits(_, _, _)
\* a + b + carry on binary digits, the least significant first
AddBits(a, b, carry) ==
    IF a = <<>> /\ b = <<>> THEN (IF carry = 1 THEN <<1>> ELSE <<>>)
    ELSE LET x == IF a = <<>> THEN 0 ELSE Head(a)
             y == IF b = <<>> THEN 0 ELSE Head(b)
             s == x + y + carry
         IN <<s % 2>> \o AddBits(IF a = <<>> THEN <<>> ELSE Tail(a),
                                 IF b = <<>> THEN <<>> ELSE Tail(b), s \div 2)

\* bits * 2^k
ShiftLeft(bits, k) == [i \in 1..k |-> 0] \o bits

\* round to nearest, ties to even: the double nearest to bits * 2^exp,
\* where sticky tells that digits below the least significant one of bits
\* were dropped and were not all zero
RoundToDouble(bits, exp, sticky) ==
    IF Len(bits) <= Precision
    THEN [bits |-> ShiftLeft(bits, Precision - Len(bits)),
          exp |-> exp - (Precision - Len(bits))]
    ELSE LET drop == Len(bits) - Precision
             kept == SubSeq(bits, drop + 1, Len(bits))
             guard == bits[drop]
             below == sticky \/ \E i \in 1..(drop - 1) : bits[i] = 1
             up == guard = 1 /\ (below \/ kept[1] = 1)
             rounded == IF up THEN AddBits(kept, <<1>>, 0) ELSE kept
         IN IF Len(rounded) > Precision
            THEN [bits |-> Tail(rounded), exp |-> exp + drop + 1]
            ELSE [bits |-> rounded, exp |-> exp + drop]

RECURSIVE LeadingShift(_, _)
\* the least k with p * 2^k >= t
LeadingShift(p, t) == IF p >= t THEN 0 ELSE 1 + LeadingShift(2 * p, t)

\* p / t on doubles, for whole numbers 0 < p and 0 < t that doubles hold exactly
FloatDivide(p, t) ==
    LET k == LeadingShift(p, t)
        n == p * Pow2(k)
        whole == n \div t
        RECURSIVE Binary(_)
        Binary(x) == IF x = 0 THEN <<>> ELSE <<x % 2>> \o Binary(x \div 2)
        q == QuotientBits(n % t, t, Precision + 1)
        digits == Reverse(SubSeq(q, 1, Precision + 1)) \o Binary(whole)
    IN RoundToDouble(digits, 0 - k - (Precision + 1), q[Precision + 2] # 0)

\* x * 100 on doubles: the product is exact before it is rounded
FloatTimes100(x) ==
    RoundToDouble(AddBits(AddBits(ShiftLeft(x.bits, 6), ShiftLeft(x.bits, 5), 0),
                          ShiftLeft(x.bits, 2), 0),
                  x.exp, FALSE)

RECURSIVE BitsValue(_)
BitsValue(bits) == IF bits = <<>> THEN 0 ELSE Head(bits) + 2 * BitsValue(Tail(bits))

\* Math.round(x) = floor(x + 0.5) for a double 0 < x < 2^30
MathRound(x) ==
    IF x.exp >= 0 THEN BitsValue(ShiftLeft(x.bits, x.exp))
    ELSE IF 0 - x.exp > Len(x.bits) THEN 0
    ELSE BitsValue(SubSeq(x.bits, 1 - x.exp, Len(x.bits))) + x.bits[0 - x.exp]

\* paidPercentage = totalAmount > 0
\*     ? Math.round((totalPaidAmount / totalAmount) * 100) : 0
\* (the paid total is never negative: paid expenses come from the form and
\* from .xml files, which admit no negative amount; the totals are taken
\* to be numbers that doubles hold exactly, as sums of whole euros are)
paidPercentage(exps, year) ==
    LET total == totalAmount(exps, year)
        paid == totalPaidAmount(exps, year)
    IN IF ~Positive(total) THEN 0
       ELSE IF paid = 0 THEN 0
       ELSE MathRound(FloatTimes100(FloatDivide(paid, total)))

\* handleExportExcel: the Totale Spese and Totale Entrate rows of the sheet
\* Riepilogo, and the Importo column of the sheets Spese and Incassi
handleExportExcel(exps, incs, year) ==
    [totaleSpese |-> totalAmount(exps, year),
     totaleEntrate |-> totalIncassato(incs, year),
     spese |-> [i \in 1..Len(exps) |-> exps[i].amount],
     incassi |-> [i \in 1..Len(incs) |-> incs[i].amount]]

\* the Excel entry of the export menu of the Dashboard
ExportExcel ==
    /\ Interactive
    /\ currentView = "dashboard"
    /\ lastWorkbook' = Some(handleExportExcel(expenses, incomes, selectedYear))
    /\ alertText' = ""
    /\ UNCHANGED <<appVars, ledgerVars, editVars, storeVars, formVars, importVars,
                   listVars, now, dashVars, reportVars, nextId, histVars, lastBackup>>

\* JSON.stringify of a number: NaN is written as null
JsonNumber(a) == IF IsNaN(a) THEN "null" ELSE a

\* JSON.stringify of a collection whose records hold a number in `field`
JsonRecords(list, field) ==
    [k \in 1..Len(list) |-> [list[k] EXCEPT ![field] = JsonNumber(list[k][field])]]

\* a backup that holds the expenses and incomes of the selected year only
handleExportBackupOfYear(name, exps, incs, accounts, year, clock) ==
    [condoName |-> name,
     exportDate |-> clock,
     expenses |-> JsonRecords(yearlyRecords(exps, year), "amount"),
     incomes |-> JsonRecords(yearlyRecords(incs, year), "amount"),
     bankAccounts |-> JsonRecords(accounts, "initialBalance"),
     version |-> "1.0"]

\* handleExportBackup: the object written to the backup file
handleExportBackup(name, exps, incs, accounts, year, clock) ==
    [condoName |-> name,
     exportDate |-> clock,
     expenses |-> JsonRecords(exps, "amount"),
     incomes |-> JsonRecords(incs, "amount"),
     bankAccounts |-> JsonRecords(accounts, "initialBalance"),
     version |-> "1.0"]

\* the JSON backup button of the Dashboard
ExportBackup ==
    /\ Interactive
    /\ currentView = "dashboard"
    /\ lastBackup' = Some(handleExportBackup(condoName, expenses, incomes, bankAccounts,
                                             selectedYear, now))
    /\ alertText' = ""
    /\ UNCHANGED <<appVars, ledgerVars, editVars, storeVars, formVars, importVars,
                   listVars, now, dashVars, reportVars, nextId, histVars, lastWorkbook>>

---------------------------------------------------------------------------
(* ReportView *)

\* the expense categories in the order of Array.prototype.sort()
CategoryOrder ==
    <<"Amministrazione", "Assicurazione", "Bollettino Postale",
      "Compenso Amministratore", "Lettura Acqua", "Manutenzione", "Pulizia",
      "Pulizia Scale", "Spese Bancarie", "Utenze", "Varie">>

\* a rank that reverses the order of the labels
CategoryRankReversed(c) == 0 - (CHOOSE k \in 1..Len(CategoryOrder) : CategoryOrder[k] = c)

\* the place of a label in that order
CategoryRank(c) == CHOOSE k \in 1..Len(CategoryOrder) : CategoryOrder[k] = c

RECURSIVE Dedup(_)
\* the keys of a Map in insertion order
Dedup(keys) ==
    IF keys = <<>> THEN <<>>
    ELSE LET d == Dedup(SubSeq(keys, 1, Len(keys) - 1)) IN
         IF keys[Len(keys)] \in Range(d) THEN d ELSE Append(d, keys[Len(keys)])

RECURSIVE SubTotal(_)
\* subs.set(k, (subs.get(k) || 0) + e.amount) over the expenses of one key:
\* a NaN partial sum is falsy and restarts from 0
SubTotal(list) ==
    IF list = <<>> THEN 0
    ELSE LET p == SubTotal(SubSeq(list, 1, Len(list) - 1)) IN
         Add(IF IsNaN(p) THEN 0 ELSE p, list[Len(list)].amount)

RECURSIVE InsertBy(_, _, _)
\* stable insertion of x, rank being the sort key of each element
InsertBy(sorted, x, rank) ==
    IF sorted = <<>> THEN <<x>>
    ELSE IF rank[Head(sorted)] <= rank[x]
         THEN <<Head(sorted)>> \o InsertBy(Tail(sorted), x, rank)
         ELSE <<x>> \o sorted

RECURSIVE SortBy(_, _)
\* Array.prototype.sort (stable), ascending in rank
SortBy(list, rank) ==
    IF list = <<>> THEN <<>>
    ELSE InsertBy(SortBy(SubSeq(list, 1, Len(list) - 1), rank), list[Len(list)], rank)

\* ReportView.filteredExpenses
reportExpenses(exps, year) == FilterSeq(exps, {e \in Range(exps) : YearOf(e.date) = year})

\* a sort key that puts the smallest subtotal first
AmountAscRank(items) ==
    [x \in Range(items) |-> IF IsNaN(x.amount) THEN 0 ELSE x.amount]

\* the sort key of (a, b) => b.amount - a.amount; a NaN difference reads +0
AmountDescRank(items) ==
    [x \in Range(items) |-> IF IsNaN(x.amount) THEN 0 ELSE 0 - x.amount]

\* ReportView.groupedData, groupMode 'month'
groupedByMonth(exps, year) ==
    LET list == reportExpenses(exps, year)
        months == Dedup([i \in 1..Len(list) |-> MonthOf(list[i].date)])
        sortedMonths == SortBy(months, [m \in Range(months) |-> 0 - m])
        group(m) ==
            LET inMonth == FilterSeq(list, {e \in Range(list) : MonthOf(e.date) = m})
                cats == Dedup([i \in 1..Len(inMonth) |-> inMonth[i].category])
                ofCat(c) == FilterSeq(inMonth, {e \in Range(inMonth) : e.category = c})
                items == [k \in 1..Len(cats) |->
                            [label |-> cats[k], amount |-> SubTotal(ofCat(cats[k])),
                             count |-> Len(ofCat(cats[k]))]]
            IN [key |-> m, total |-> SumAmounts(inMonth),
                items |-> SortBy(items, AmountDescRank(items))]
    IN [k \in 1..Len(sortedMonths) |-> group(sortedMonths[k])]

\* ReportView.groupedData, groupMode 'category'
groupedByCategory(exps, year) ==
    LET list == reportExpenses(exps, year)
        cats == Dedup([i \in 1..Len(list) |-> list[i].category])
        sortedCats == SortBy(cats, [c \in Range(cats) |-> CategoryRank(c)])
        group(c) ==
            LET inCat == FilterSeq(list, {e \in Range(list) : e.category = c})
                months == Dedup([i \in 1..Len(inCat) |-> MonthOf(inCat[i].date)])
                ofMonth(m) == FilterSeq(inCat, {e \in Range(inCat) : MonthOf(e.date) = m})
                items == [k \in 1..Len(months) |->
                            [label |-> months[k], amount |-> SubTotal(ofMonth(months[k])),
                             count |-> Len(ofMonth(months[k]))]]
            IN [key |-> c, total |-> SumAmounts(inCat),
                items |-> SortBy(items, [x \in Range(items) |-> x.label])]
    IN [k \in 1..Len(sortedCats) |-> group(sortedCats[k])]

groupedData(exps, year, mode) ==
    IF mode = "month" THEN groupedByMonth(exps, year) ELSE groupedByCategory(exps, year)

\* ReportView.allYears
ReportYears(exps, clock) == {YearOf(e.date) : e \in Range(exps)} \cup {CurrentYear(clock)}

\* the year selector of the report
SelectReportYear(y) ==
    /\ Interactive
    /\ currentView = "reports"
    /\ y \in ReportYears(expenses, now)
    /\ reportYear' = y
    /\ UNCHANGED <<appVars, ledgerVars, editVars, storeVars, formVars, importVars,
                   listVars, now, dashVars, groupMode, nextId, histVars>>
    /\ alertText' = ""
    /\ UNCHANGED <<lastWorkbook, lastBackup>>

\* the month / category toggle of the report
SetGroupMode(mode) ==
    /\ Interactive
    /\ currentView = "reports"
    /\ mode \in {"month", "category"}
    /\ groupMode' = mode
    /\ UNCHANGED <<appVars, ledgerVars, editVars, storeVars, formVars, importVars,
                   listVars, now, dashVars, reportYear, nextId, histVars>>
    /\ alertText' = ""
    /\ UNCHANGED <<lastWorkbook, lastBackup>>

---------------------------------------------------------------------------
(* The data the exploration works with *)

\* what an earlier release of the application (src/unnamed/part_003) left
\* in localStorage: an account with an expense and an income attributed
SampleAccount ==
    [id |-> 101, name |-> <<"C">>, initialBalance |-> 500000, iban |-> <<"I">>]
SampleExpense ==
    [id |-> 102, description |-> <<"a">>, amount |-> 45000, date |-> 20231101,
     category |-> "Manutenzione", bankAccountId |-> 101, status |-> "unpaid",
     attachments |-> <<>>]
SampleIncome ==
    [id |-> 103, description |-> <<"b">>, amount |-> 55000, date |-> 20231005,
     category |-> "Quote Condominiali", bankAccountId |-> 101]

EmptyStore == [k \in StorageKeys |-> None]

\* a store holding, under the keys of organisation name, the collections given
StoreOf(name, exps, incs, accs) ==
    [k \in StorageKeys |->
        IF k = getStorageKey("expenses", name) THEN Some(exps)
        ELSE IF k = getStorageKey("incomes", name) THEN Some(incs)
        ELSE IF k = getStorageKey("bankAccounts", name) THEN Some(accs)
        ELSE None]

SampleStore == StoreOf(<<"A">>, <<SampleExpense>>, <<SampleIncome>>, <<SampleAccount>>)

StartClock == [date |-> 20240101, hour |-> 0]

\* the application as constructed (nobody logged in) over a given store
InitWith(store, old, writable) ==
    /\ condoName = NoName
    /\ isLoading = FALSE
    /\ currentView = "dashboard"
    /\ expenses = <<>>
    /\ incomes = <<>>
    /\ bankAccounts = <<>>
    /\ editingExpense = None
    /\ editingIncome = None
    /\ editingBankAccount = None
    /\ idb = store
    /\ legacy = old
    /\ idbWritable = writable
    /\ sortImpl \in SortImpls
    /\ idbQueue = <<>>
    /\ loadPc = "idle"
    /\ pendingExpenseData = None
    /\ showDuplicateWarning = FALSE
    /\ isImporting = FALSE
    /\ importCandidates = <<>>
    /\ showImportReview = FALSE
    /\ listFilter = NoFilter
    /\ lastExport = NoExport
    /\ now = StartClock
    /\ selectedYear = 0
    /\ overdueMemo = <<>>
    /\ reportYear = 0
    /\ groupMode = "month"
    /\ nextId = 1
    /\ loginSnapshot = None
    /\ pristine = FALSE
    /\ alertText = ""
    /\ lastWorkbook = None
    /\ lastBackup = None

\* what the user types into the ExpenseForm
ExpenseFillings ==
    {[description |-> <<"a">>, amount |-> 45000, date |-> 20231101, category |-> "Varie",
      bankAccountId |-> 0, status |-> "unpaid", attachments |-> <<>>],
     [description |-> <<Space>>, amount |-> 0, date |-> 20240101,
      category |-> "Manutenzione", bankAccountId |-> 0, status |-> "paid",
      attachments |-> <<>>]}

\* the form as it was opened for initialData, left untouched
FormOf(initialData) ==
    [description |-> initialData.description, amount |-> initialData.amount,
     date |-> initialData.date, category |-> initialData.category,
     bankAccountId |-> initialData.bankAccountId, status |-> initialData.status,
     attachments |-> initialData.attachments]

\* what the user types into the IncomeForm
IncomeFillings ==
    {[description |-> <<"b">>, amount |-> 20000, date |-> 20240101,
      category |-> "Altro"]}

\* what the user types into the BankAccountForm
AccountFillings ==
    {[name |-> <<"B">>, initialBalance |-> 10000, iban |-> <<"i">>]}

\* what the import reads from the <expense> element an export of this
\* application holds for the expense r, and elements written by hand
XmlItemOf(r, accounts) == parseXmlElement(xmlElement(r, accounts))

XmlItemsByHand ==
    {[id |-> 0, description |-> <<Space>>, amount |-> Some(100), category |-> "",
      date |-> 0, status |-> "", bankAccount |-> <<>>],
     [id |-> 0, description |-> <<"a", Space, Copia>>, amount |-> Some(45000),
      category |-> "Varie", date |-> 20231101, status |-> "paid", bankAccount |-> <<>>],
     [id |-> 0, description |-> <<>>, amount |-> None, category |-> "",
      date |-> 0, status |-> "", bankAccount |-> <<>>]}

\* .xml files written by hand
XmlFilesByHand == {<<x>> : x \in XmlItemsByHand}

\* the answers of the AI extraction: a failure, no record, one record
AiCandidate ==
    [description |-> <<"a">>, amount |-> 12000, date |-> 20231101, category |-> "Varie"]
AiResults == {None, Some(<<>>), Some(<<AiCandidate>>)}

\* the edits made in the review dialog: amount cleared or negative,
\* description emptied
CandidateEdits ==
    {<<"amount", NaN>>, <<"amount", 0 - 100>>, <<"description", <<>> >>}

---------------------------------------------------------------------------
(* The expense ledger: an organisation without earlier data logs in and   *)
(* works on its expenses                                                   *)

Init == InitWith(EmptyStore, EmptyStore, TRUE)

Next ==
    \/ LoginSubmit(<<"a">>)
    \/ StoreStep(TRUE)
    \/ \E view \in {"add", "list", "reports"} : NavClick(view)
    \/ \E f \in ExpenseFillings : ExpenseFormSubmit(f)
    \/ IsSome(editingExpense) /\ ExpenseFormSubmit(FormOf(Get(editingExpense)))
    \/ ConfirmDuplicate
    \/ CancelDuplicate
    \/ CancelExpenseForm
    \/ \E i \in 1..MaxExpenses : StartEditExpense(i)
    \/ \E i \in 1..MaxExpenses : StartDuplicateExpense(i)
    \/ \E i \in 1..MaxExpenses : DeleteExpense(i)
    \/ ImportStart
    \/ \E items \in XmlFilesByHand : ImportXml(items)
    \/ \E i \in 1..MaxExpenses :
          i <= Len(expenses) /\ ImportXml(<<XmlItemOf(expenses[i], bankAccounts)>>)
    \/ \E result \in AiResults : ImportAiFinish(result)
    \/ \E edit \in CandidateEdits : UpdateCandidate(1, edit[1], edit[2])
    \/ RemoveCandidate(1)
    \/ CloseImportReview
    \/ SaveImportCandidates
    \/ \E y \in {2023, 2024} : SelectReportYear(y)
    \/ \E mode \in {"month", "category"} : SetGroupMode(mode)

Spec == Init /\ [][Next]_vars

---------------------------------------------------------------------------
(* Properties of the expense ledger *)

\* the ids of a collection, with their multiplicities
IdsOf(list) == [i \in 1..Len(list) |-> list[i].id]
IdCount(list, id) == Cardinality({i \in 1..Len(list) : list[i].id = id})

\* the ExpenseForm is open on a record of the ledger (start-edit) and the
\* step saves it
EditSaved ==
    /\ currentView = "add"
    /\ IsSome(editingExpense)
    /\ Get(editingExpense) \in Range(expenses)
    /\ expenses' # expenses

\* C3: saving the edit of an existing expense, whatever its description,
\* leaves the number of expenses unchanged, keeps the id of the edited
\* record and creates no other record.
C3_EditInPlace ==
    [][EditSaved =>
          /\ Len(expenses') = Len(expenses)
          /\ \A id \in Range(IdsOf(expenses)) \cup Range(IdsOf(expenses')) :
                 IdCount(expenses', id) = IdCount(expenses, id)]_vars

\* C4: no two expenses share an id and no two incomes share an id, after
\* any sequence of adds, duplications, edits, deletes and imports.
C4_UniqueIds ==
    /\ \A i, j \in 1..Len(expenses) : expenses[i].id = expenses[j].id => i = j
    /\ \A i, j \in 1..Len(incomes) : incomes[i].id = incomes[j].id => i = j

\* C9: every expense and every income of the ledger has an amount that is
\* a finite number >= 0.
C9_AmountsValid ==
    /\ \A e \in Range(expenses) : ~IsNaN(e.amount) /\ e.amount >= 0
    /\ \A i \in Range(incomes) : ~IsNaN(i.amount) /\ i.amount >= 0

\* C10: no expense of the ledger has a description that is empty after
\* trimming white space.
C10_DescriptionPresent ==
    \A e \in Range(expenses) : Trim(e.description) # <<>>

RECURSIVE SumOf(_, _)
\* the sum of field over the records of list
SumOf(list, field) ==
    IF list = <<>> THEN 0
    ELSE Add(SumOf(SubSeq(list, 1, Len(list) - 1), field), list[Len(list)][field])

\* the expenses a group of the report stands for
GroupMembers(exps, year, mode, key) ==
    FilterSeq(reportExpenses(exps, year),
              {e \in Range(exps) : IF mode = "month" THEN MonthOf(e.date) = key
                                   ELSE e.category = key})

\* C5: in the report shown, the group totals add up to the total of the
\* expenses of the selected year, and in every group the amounts of the
\* items add up to the group total and their counts to the number of
\* expenses of the group.
C5_ReportSums ==
    currentView = "reports" /\ Interactive =>
        LET groups == groupedData(expenses, reportYear, groupMode) IN
        /\ SumOf(groups, "total") = SumAmounts(reportExpenses(expenses, reportYear))
        /\ \A k \in 1..Len(groups) :
              /\ SumOf(groups[k].items, "amount") = groups[k].total
              /\ SumOf(groups[k].items, "count")
                   = Len(GroupMembers(expenses, reportYear, groupMode, groups[k].key))

---------------------------------------------------------------------------
(* The accounts: an organisation whose data an earlier release left in     *)
(* localStorage logs in and works on expenses, incomes and bank accounts;  *)
(* IndexedDB accepts writes, or its quota is used up.                      *)

\* an expense typed into the ExpenseForm, to be attributed to an account
AccountExpense ==
    [description |-> <<"a">>, amount |-> 45000, date |-> 20231101, category |-> "Varie",
     bankAccountId |-> 0, status |-> "unpaid", attachments |-> <<>>]

\* the account choices of the ExpenseForm select
AccountChoices == {0, 101} \cup 1..MaxId

InitAccounts == \E writable \in BOOLEAN : InitWith(EmptyStore, SampleStore, writable)

NextAccounts ==
    \/ LoginSubmit(<<"a">>)
    \/ \E ok \in BOOLEAN : StoreAnswers(ok) /\ StoreStep(ok)
    \/ \E view \in {"add", "list", "addIncome", "listIncome", "addBankAccount",
                    "listBankAccounts"} : NavClick(view)
    \/ \E b \in AccountChoices : ExpenseFormSubmit([AccountExpense EXCEPT !.bankAccountId = b])
    \/ ConfirmDuplicate
    \/ CancelDuplicate
    \/ CancelExpenseForm
    \/ \E i \in 1..MaxExpenses : StartEditExpense(i)
    \/ \E i \in 1..MaxExpenses : DeleteExpense(i)
    \/ ImportStart
    \/ \E i \in 1..MaxExpenses :
          /\ currentView = "list"
          /\ i <= Len(expenses)
          /\ ImportXml(<<XmlItemOf(expenses[i], bankAccounts)>>)
    \/ \E f \in IncomeFillings : IncomeFormSubmit(f)
    \/ IncomeFormSubmitMonthly(2024, 2, 30000)
    \/ CancelIncomeForm
    \/ \E i \in 1..MaxIncomes : StartEditIncome(i)
    \/ \E i \in 1..MaxIncomes : DeleteIncome(i)
    \/ \E f \in AccountFillings : BankAccountFormSubmit(f)
    \/ CancelBankAccountForm
    \/ \E i \in 1..MaxAccounts : StartEditBankAccount(i)
    \/ \E i \in 1..MaxAccounts : DeleteBankAccount(i)

SpecAccounts == InitAccounts /\ [][NextAccounts]_vars

---------------------------------------------------------------------------
(* Properties of the accounts *)

RECURSIVE SumOver(_, _)
\* the sum of the amounts of the records of list at the positions of the
\* set at, in the integers
SumOver(list, at) ==
    IF at = {} THEN 0
    ELSE LET k == CHOOSE k \in at : TRUE IN list[k].amount + SumOver(list, at \ {k})

\* the positions of the records of list attributed to the account id
AttributedTo(list, id) == {k \in 1..Len(list) : list[k].bankAccountId = id}

\* C2: the balance shown for each bank account is its initial balance plus
\* the amounts of all incomes attributed to it minus the amounts of all
\* expenses attributed to it, whatever their dates; an account without
\* attributed records shows its initial balance.
C2_AccountBalance ==
    condoName # NoName =>
        \A k \in 1..Len(bankAccounts) :
            LET id == bankAccounts[k].id IN
            /\ balanceShown(bankAccounts, expenses, incomes, id)
                 = bankAccounts[k].initialBalance
                     + SumOver(incomes, AttributedTo(incomes, id))
                     - SumOver(expenses, AttributedTo(expenses, id))
            /\ AttributedTo(incomes, id) = {} /\ AttributedTo(expenses, id) = {}
                 => balanceShown(bankAccounts, expenses, incomes, id)
                      = bankAccounts[k].initialBalance

\* C2 witness: the list of accounts shows an account that has an income and
\* an expense of an earlier year attributed, next to an expense of no account
C2_Witness ==
    /\ Interactive
    /\ currentView = "listBankAccounts"
    /\ \E k \in 1..Len(bankAccounts) :
          /\ AttributedTo(incomes, bankAccounts[k].id) # {}
          /\ \E j \in AttributedTo(expenses, bankAccounts[k].id) :
                YearOf(expenses[j].date) # CurrentYear(now)
          /\ AttributedTo(expenses, bankAccounts[k].id) # 1..Len(expenses)

---------------------------------------------------------------------------
(* Persistence: organisations log in and out over a store that holds data *)

\* what is typed into the login screen
TypedNames == {<<"a">>, <<"a", Space, "b">>, <<Space, "a", "_", "b">>, <<Space>>}

InitPersist ==
    \E store \in {EmptyStore, SampleStore}, old \in {EmptyStore, SampleStore} :
        InitWith(store, old, TRUE)

NextPersist ==
    \/ \E typed \in TypedNames : LoginSubmit(typed)
    \/ \E ok \in BOOLEAN : StoreStep(ok)
    \/ Logout

SpecPersist == InitPersist /\ [][NextPersist]_vars

\* C1: after a login over a store that holds the three collections of the
\* organisation, and the completion of loadData, the collections in memory
\* are the stored ones; and while the data is loaded no stored collection
\* is overwritten with the empty collection of before the load.
C1_LoadRoundTrip ==
    (/\ condoName # NoName
     /\ pristine
     /\ IsSome(loginSnapshot)
     /\ \A t \in CollectionTypes : IsSome(Get(loginSnapshot)[t]))
    => /\ ~isLoading =>
            /\ expenses = Get(Get(loginSnapshot)["expenses"])
            /\ incomes = Get(Get(loginSnapshot)["incomes"])
            /\ bankAccounts = Get(Get(loginSnapshot)["bankAccounts"])
       /\ \A t \in CollectionTypes :
            idb[getStorageKey(t, condoName)] = Get(loginSnapshot)[t]

---------------------------------------------------------------------------
(* The expense list: filters and exports over a stored ledger *)

\* the scenario of the specification: one expense of 450.00 in its
\* category, next to an unpaid one of 125.50
ListExpenses ==
    <<[id |-> 105, description |-> <<"b">>, amount |-> 12550, date |-> 20231120,
       category |-> "Varie", bankAccountId |-> 0, status |-> "unpaid",
       attachments |-> <<>>],
      [id |-> 104, description |-> <<"a">>, amount |-> 45000, date |-> 20231015,
       category |-> "Manutenzione", bankAccountId |-> 0, status |-> "paid",
       attachments |-> <<>>]>>

\* the filter that leaves the expense of 450.00 alone
OnlyManutenzione == [NoFilter EXCEPT !.selectedCategory = "Manutenzione"]

Filters ==
    {NoFilter, OnlyManutenzione,
     [NoFilter EXCEPT !.paymentStatus = "unpaid"],
     [NoFilter EXCEPT !.searchTerm = <<"A">>],
     [NoFilter EXCEPT !.searchTerm = <<"v", "a">>],
     [NoFilter EXCEPT !.startDate = 20231101],
     [NoFilter EXCEPT !.endDate = 20231101, !.paymentStatus = "unpaid"]}

InitList == InitWith(StoreOf(<<"A">>, ListExpenses, <<>>, <<>>), EmptyStore, TRUE)

NextList ==
    \/ LoginSubmit(<<"a">>)
    \/ StoreStep(TRUE)
    \/ \E view \in {"list", "dashboard"} : NavClick(view)
    \/ \E f \in Filters : SetFilter(f)
    \/ \E format \in {"pdf", "csv", "xml"} : Export(format)

SpecList == InitList /\ [][NextList]_vars

\* an amount with two decimals and a decimal comma, as "450,00"
TwoDecimals(v) ==
    (IF v < 0 THEN "-" ELSE "") \o ToString(Abs(v) \div 100) \o "," \o TwoDigits(Abs(v) % 100)

\* C6: whatever the filter, every export (PDF, CSV, XML) ends with a total
\* row that carries the total the filtered list shows; the CSV export of
\* the single expense of 450.00 carries the total field "450,00".
C6_ExportTotal ==
    lastExport.format # "none" =>
        /\ IsSome(lastExport.foot)
        /\ Get(lastExport.foot) \in {TwoDecimals(lastExport.total),
                                     formatCurrency(lastExport.total)}

---------------------------------------------------------------------------
(* The dashboard while time passes *)

DashboardExpenses ==
    <<[id |-> 108, description |-> <<"b">>, amount |-> 10000, date |-> 20240101,
       category |-> "Varie", bankAccountId |-> 0, status |-> "unpaid",
       attachments |-> <<>>],
      [id |-> 107, description |-> <<"a">>, amount |-> 20000, date |-> 20231215,
       category |-> "Varie", bankAccountId |-> 0, status |-> "paid",
       attachments |-> <<>>],
      [id |-> 106, description |-> <<"a">>, amount |-> 30000, date |-> 20231101,
       category |-> "Manutenzione", bankAccountId |-> 0, status |-> "unpaid",
       attachments |-> <<>>]>>

InitDashboard == InitWith(StoreOf(<<"A">>, DashboardExpenses, <<>>, <<>>), EmptyStore, TRUE)

NextDashboard ==
    \/ LoginSubmit(<<"a">>)
    \/ StoreStep(TRUE)
    \/ \E view \in {"dashboard", "list", "reports"} : NavClick(view)
    \/ Tick
    \/ \E y \in {2023, 2024} : SelectYear(y)
    \/ ExportExcel

SpecDashboard == InitDashboard /\ [][NextDashboard]_vars

\* the whole days from the calendar day d to the calendar day today
DaysBetween(d, today) == (GetTime(today) - GetTime(d)) \div 24

\* C7: the overdue list of the dashboard holds exactly the unpaid expenses
\* dated before today, the oldest first: an unpaid expense dated today is
\* not in it and enters it when today passes its date, a paid one never.
C7_OverdueList ==
    Interactive /\ currentView = "dashboard" =>
        /\ \A e \in Range(expenses) :
              e \in Range(overdueMemo) <=> (e.status = "unpaid" /\ e.date < Today(now))
        /\ Len(overdueMemo) = Cardinality(Range(overdueMemo))
        /\ \A i, j \in 1..Len(overdueMemo) :
              i < j => overdueMemo[i].date <= overdueMemo[j].date

\* C8: the days overdue the dashboard reports for an overdue expense are
\* the whole calendar days from its date to today, whatever the time of
\* day; on 2024-01-01 an expense dated 2023-11-01 reports 61.
C8_DaysOverdue ==
    Interactive /\ currentView = "dashboard" =>
        \A e \in Range(overdueMemo) :
            /\ getDaysOverdue(e.date, now) = DaysBetween(e.date, Today(now))
            /\ e.date = 20231101 /\ Today(now) = 20240101
                 => getDaysOverdue(e.date, now) = 61

---------------------------------------------------------------------------
(* File import: an organisation without earlier data imports .xml files   *)
(* and AI-read documents into its lists                                    *)

\* a <date> text that is not of the form YYYY-MM-DD, such as "15/10/2023"
BadDate == 0 - 1

\* a <category> text that is no member of ExpenseCategory or IncomeCategory
UnknownCategory == "Giardinaggio"

\* <expense> / <income> elements of imported files: without <date>, with a
\* <date> that is no calendar date, with a <category> outside the enumeration
ImportItems ==
    {[id |-> 0, description |-> <<"a">>, amount |-> Some(45000), category |-> "Varie",
      date |-> 0, status |-> "paid", bankAccount |-> <<>>],
     [id |-> 0, description |-> <<"b">>, amount |-> Some(12000), category |-> "Varie",
      date |-> BadDate, status |-> "", bankAccount |-> <<>>],
     [id |-> 0, description |-> <<"c">>, amount |-> Some(30000),
      category |-> UnknownCategory, date |-> 20231101, status |-> "", bankAccount |-> <<>>]}

\* the date input of the review dialog cleared (value ''), the amount retyped
ImportEdits == {<<"date", 0>>, <<"amount", 15000>>}

InitImport == InitWith(EmptyStore, EmptyStore, TRUE)

NextImport ==
    \/ LoginSubmit(<<"a">>)
    \/ StoreStep(TRUE)
    \/ \E view \in ListViews : NavClick(view)
    \/ ImportStart
    \/ \E item \in ImportItems : ImportXml(<<item>>)
    \/ \E result \in AiResults : currentView = "list" /\ ImportAiFinish(result)
    \/ \E edit \in ImportEdits : UpdateCandidate(1, edit[1], edit[2])
    \/ RemoveCandidate(1)
    \/ CloseImportReview
    \/ SaveImportCandidates
    \/ \E i \in 1..MaxExpenses : DeleteExpense(i)
    \/ \E i \in 1..MaxIncomes : DeleteIncome(i)

SpecImport == InitImport /\ [][NextImport]_vars

\* a calendar date of the form YYYY-MM-DD
IsDate(d) ==
    /\ YearOf(d) \in 1000..9999
    /\ MonthOf(d) \in 0..11
    /\ DayOf(d) \in 1..DaysInMonth(YearOf(d), MonthOf(d))

\* C11: every record of the ledger has a date of the form YYYY-MM-DD: an
\* imported candidate without a date gets today's date and one whose date
\* is not of that form is not admitted with it.
C11_DatesWellFormed ==
    \A r \in Range(expenses) \cup Range(incomes) : IsDate(r.date)


\* enum ExpenseCategory and enum IncomeCategory
ExpenseCategory == Range(CategoryOrder)
IncomeCategory == {"Quote Condominiali", "Spese Pulizia Giardino", "Quota AQP", "Altro"}

\* C12: an imported candidate whose category is outside the enumeration is
\* stored under the default bucket (Varie for expenses, Altro for incomes),
\* never under the unknown label: every stored category is a member of the
\* enumeration of its collection.
C12_CategoryDegrades ==
    /\ \A e \in Range(expenses) : e.category \in ExpenseCategory
    /\ \A i \in Range(incomes) : i.category \in IncomeCategory

---------------------------------------------------------------------------
(* Manual entry: an organisation that holds one expense enters expenses   *)
(* that repeat it or differ from it in one field                           *)

FormExpense ==
    [id |-> 110, description |-> <<"a">>, amount |-> 45000, date |-> 20231101,
     category |-> "Varie", bankAccountId |-> 0, status |-> "unpaid", attachments |-> <<>>]

\* the form filled with the three fields below
Filling(description, amount, date) ==
    [description |-> description, amount |-> amount, date |-> date, category |-> "Varie",
     bankAccountId |-> 0, status |-> "unpaid", attachments |-> <<>>]

\* what the user types: the stored expense again, the same with other
\* letter case and blanks around, and one with one field changed
FormFillings ==
    {Filling(<<"a">>, 45000, 20231101),
     Filling(<<Space, "A", Space>>, 45000, 20231101),
     Filling(<<"a">>, 45001, 20231101),
     Filling(<<"a">>, 45000, 20231102),
     Filling(<<"b">>, 45000, 20231101)}

InitForm == InitWith(StoreOf(<<"A">>, <<FormExpense>>, <<>>, <<>>), EmptyStore, TRUE)

NextForm ==
    \/ LoginSubmit(<<"a">>)
    \/ StoreStep(TRUE)
    \/ \E view \in {"add", "list"} : NavClick(view)
    \/ \E f \in FormFillings : ExpenseFormSubmit(f)
    \/ IsSome(editingExpense) /\ ExpenseFormSubmit(FormOf(Get(editingExpense)))
    \/ ConfirmDuplicate
    \/ CancelDuplicate
    \/ CancelExpenseForm
    \/ \E i \in 1..MaxExpenses : StartEditExpense(i)
    \/ \E i \in 1..MaxExpenses : StartDuplicateExpense(i)
    \/ \E i \in 1..MaxExpenses : DeleteExpense(i)

SpecForm == InitForm /\ [][NextForm]_vars

\* a step that submits the form for an expense that gets a new id
SubmittedNew == currentView = "add" /\ ~showDuplicateWarning /\ nextId' = nextId + 1

\* the expense such a step submitted: the one held back, or the one added
SubmittedData ==
    IF showDuplicateWarning' THEN Get(pendingExpenseData')
    ELSE CHOOSE e \in Range(expenses') : e.id = nextId

\* same amount, same date, same description once trimmed and lower-cased
SameExpense(e, d) ==
    /\ e.amount = d.amount
    /\ e.date = d.date
    /\ ToLower(Trim(e.description)) = ToLower(Trim(d.description))

\* C13: a newly submitted expense is flagged as a duplicate exactly when an
\* existing expense has the same amount, the same date and the same
\* description after trimming and lower-casing; one differing field in
\* every existing expense and there is no flag.
C13_DuplicateFlag ==
    [][SubmittedNew =>
          (showDuplicateWarning' <=> \E e \in Range(expenses) : SameExpense(e, SubmittedData))]_vars

\* the flag is raised for a description that differs in case and blanks
C13_Witness ==
    /\ showDuplicateWarning
    /\ IsSome(pendingExpenseData)
    /\ Get(pendingExpenseData).description = <<Space, "A", Space>>
    /\ \E e \in Range(expenses) : e.description = <<"a">>


\* the sequence s without its k-th element
WithoutAt(s, k) == [i \in 1..(Len(s) - 1) |-> IF i < k THEN s[i] ELSE s[i + 1]]

\* the step adds exactly the record r to the expenses
AddsExactly(r) ==
    /\ Len(expenses') = Len(expenses) + 1
    /\ \E k \in 1..Len(expenses') : expenses'[k] = r /\ WithoutAt(expenses', k) = expenses

\* C14: an expense flagged as a duplicate is held back until the user
\* chooses: the flagging submit leaves the expenses unchanged and keeps the
\* record pending; while the question is open the expenses do not change;
\* cancelling leaves them unchanged and clears the pending record;
\* confirming adds exactly the pending record.
C14_DuplicateHeldBack ==
    [][/\ (~showDuplicateWarning /\ showDuplicateWarning')
            => (expenses' = expenses /\ IsSome(pendingExpenseData'))
       /\ showDuplicateWarning
            => /\ IsSome(pendingExpenseData)
               /\ \/ expenses' = expenses
                  \/ AddsExactly(Get(pendingExpenseData))
               /\ ~showDuplicateWarning' => pendingExpenseData' = None
               /\ (~showDuplicateWarning' /\ currentView' = "add") => expenses' = expenses
               /\ (~showDuplicateWarning' /\ currentView' = "list")
                    => AddsExactly(Get(pendingExpenseData))]_vars

\* the user confirmed: the ledger holds the expense and its repetition
C14_Witness ==
    /\ ~showDuplicateWarning
    /\ pendingExpenseData = None
    /\ \E i, j \in 1..Len(expenses) :
          i # j /\ expenses[i].id # expenses[j].id /\ SameExpense(expenses[i], expenses[j])

---------------------------------------------------------------------------
(* The lists with their filters: an organisation whose data of the        *)
(* localStorage version is read at login looks through its expenses and    *)
(* incomes                                                                 *)

\* an id that belongs to no bank account
NoSuchAccount == 900 + 99

SearchExpenses ==
    <<[id |-> 113, description |-> <<"b">>, amount |-> 12550, date |-> 20231120,
       category |-> "Varie", bankAccountId |-> 101, status |-> "unpaid",
       attachments |-> <<>>],
      [id |-> 112, description |-> <<"a", "b">>, amount |-> 30000, date |-> 20231101,
       category |-> "Varie", bankAccountId |-> NoSuchAccount, status |-> "paid",
       attachments |-> <<>>],
      [id |-> 111, description |-> <<"a">>, amount |-> 45000, date |-> 20231015,
       category |-> "Manutenzione", bankAccountId |-> 0, status |-> "paid",
       attachments |-> <<>>]>>

SearchIncomes ==
    <<[id |-> 115, description |-> <<"b">>, amount |-> 55000, date |-> 20231105,
       category |-> "Altro", bankAccountId |-> 101],
      [id |-> 114, description |-> <<"a">>, amount |-> 55000, date |-> 20231005,
       category |-> "Quote Condominiali", bankAccountId |-> NoSuchAccount]>>

SearchStore == StoreOf(<<"A">>, SearchExpenses, SearchIncomes, <<SampleAccount>>)

\* search texts: the account name in lower case, letters of a category in
\* upper case, letters of a description, a text found nowhere
SearchTexts == {<<"c">>, <<"V", "A">>, <<"a", "l">>, <<"B">>, <<"z", "z">>}

SearchFilters ==
    {NoFilter}
    \cup {[NoFilter EXCEPT !.searchTerm = t] : t \in SearchTexts}
    \cup {[NoFilter EXCEPT !.startDate = 20231015, !.endDate = 20231101],
          [NoFilter EXCEPT !.startDate = 20231101],
          [NoFilter EXCEPT !.endDate = 20231105, !.selectedCategory = "Altro"],
          [NoFilter EXCEPT !.selectedAccountId = 101, !.paymentStatus = "unpaid"],
          [NoFilter EXCEPT !.selectedAccountId = NoSuchAccount],
          [NoFilter EXCEPT !.selectedCategory = "Varie", !.searchTerm = <<"B">>,
                           !.paymentStatus = "paid"]}

InitSearch == InitWith(EmptyStore, SearchStore, FALSE)

NextSearch ==
    \/ LoginSubmit(<<"a">>)
    \/ \E ok \in BOOLEAN : StoreAnswers(ok) /\ StoreStep(ok)
    \/ \E view \in ListViews \cup {"dashboard"} : NavClick(view)
    \/ \E f \in SearchFilters : SetFilter(f)
    \/ \E format \in {"pdf", "csv", "xml"} : Export(format)

SpecSearch == InitSearch /\ [][NextSearch]_vars

\* the search text is a case-insensitive substring of the description, of
\* the category label or of the name of the account the record refers to
SearchHit(text, r, accounts) ==
    LET t == LowerText(text)
        name == IF \E a \in Range(accounts) : a.id = r.bankAccountId
                THEN (CHOOSE a \in Range(accounts) : a.id = r.bankAccountId).name
                ELSE <<>>
    IN \/ Includes(LowerText(r.description), t)
       \/ Includes(LowerText(CategoryText(r.category)), t)
       \/ Includes(LowerText(name), t)

\* every active predicate of the filter f holds of the expense e
PassesAll(e, f, accounts) ==
    /\ SearchHit(f.searchTerm, e, accounts)
    /\ f.startDate = 0 \/ e.date >= f.startDate
    /\ f.endDate = 0 \/ e.date <= f.endDate
    /\ f.selectedCategory = "" \/ e.category = f.selectedCategory
    /\ f.selectedAccountId = 0 \/ e.bankAccountId = f.selectedAccountId
    /\ f.paymentStatus = "" \/ e.status = f.paymentStatus

\* sub is the subsequence of full, in the order of full, of the elements in pass
IsSubsequenceOf(sub, full, pass) ==
    /\ Range(sub) = Range(full) \cap pass
    /\ \E at \in [1..Len(sub) -> 1..Len(full)] :
          /\ \A i \in 1..Len(sub) : sub[i] = full[at[i]]
          /\ \A i, j \in 1..Len(sub) : i < j => at[i] < at[j]

\* C15: the filtered expense list is the subsequence, in the order of the
\* ledger, of the expenses that satisfy every active predicate at once
\* (date bounds inclusive); an unset field excludes nothing.
C15_FilteredList ==
    Interactive /\ currentView = "list" =>
        /\ IsSubsequenceOf(filteredExpenses(expenses, bankAccounts, listFilter), expenses,
                           {e \in Range(expenses) : PassesAll(e, listFilter, bankAccounts)})
        /\ listFilter = NoFilter
             => filteredExpenses(expenses, bankAccounts, listFilter) = expenses

\* both date bounds are set and an expense dated on each bound is listed
C15_Witness ==
    /\ Interactive /\ currentView = "list"
    /\ listFilter.startDate = 20231015 /\ listFilter.endDate = 20231101
    /\ Len(expenses) = 3
    /\ Len(filteredExpenses(expenses, bankAccounts, listFilter)) = 2
    /\ \E e \in Range(filteredExpenses(expenses, bankAccounts, listFilter)) :
          e.date = listFilter.startDate
    /\ \E e \in Range(filteredExpenses(expenses, bankAccounts, listFilter)) :
          e.date = listFilter.endDate


\* only the search text of the filter is set
OnlySearch(f) == f = [NoFilter EXCEPT !.searchTerm = f.searchTerm]

\* C16: in the expense list and in the income list a record passes the
\* search exactly when the search text is a case-insensitive substring of
\* its description, of its category label or of the name of the account it
\* refers to (the empty text for an id that matches no account).
C16_SearchText ==
    (Interactive /\ OnlySearch(listFilter)) =>
        /\ currentView = "list"
             => filteredExpenses(expenses, bankAccounts, listFilter)
                  = FilterSeq(expenses, {e \in Range(expenses) :
                                           SearchHit(listFilter.searchTerm, e, bankAccounts)})
        /\ currentView = "listIncome"
             => filteredIncomes(incomes, listFilter)
                  = FilterSeq(incomes, {i \in Range(incomes) :
                                          SearchHit(listFilter.searchTerm, i, bankAccounts)})

---------------------------------------------------------------------------
(* Deleting bank accounts: an organisation with two accounts and records  *)
(* attributed to both                                                      *)

SecondAccount ==
    [id |-> 116, name |-> <<"D">>, initialBalance |-> 100000, iban |-> <<"I">>]

DeleteStore ==
    StoreOf(<<"A">>,
            <<[SampleExpense EXCEPT !.id = 118, !.date = 20231120, !.bankAccountId = 116],
              SampleExpense>>,
            <<[SampleIncome EXCEPT !.id = 117, !.date = 20231105, !.bankAccountId = 116],
              SampleIncome>>,
            <<SampleAccount, SecondAccount>>)

InitDelete == InitWith(EmptyStore, DeleteStore, FALSE)

NextDelete ==
    \/ LoginSubmit(<<"a">>)
    \/ \E ok \in BOOLEAN : StoreAnswers(ok) /\ StoreStep(ok)
    \/ \E view \in {"listBankAccounts", "list", "listIncome"} : NavClick(view)
    \/ \E i \in 1..2 : DeleteBankAccount(i)
    \/ \E i \in 1..2 : DeleteExpense(i)
    \/ \E i \in 1..2 : DeleteIncome(i)

SpecDelete == InitDelete /\ [][NextDelete]_vars

\* a step of the account list that removes an account
AccountDeleted ==
    /\ Interactive /\ currentView = "listBankAccounts"
    /\ Len(bankAccounts') < Len(bankAccounts)

\* C17: deleting a bank account changes the bank-account collection only:
\* expenses and incomes stay as they are (the records of the deleted account
\* keep their bankAccountId), exactly that account goes, and the balance
\* shown for every remaining account is what it was.
C17_DeleteAccountFrame ==
    [][AccountDeleted =>
          /\ expenses' = expenses
          /\ incomes' = incomes
          /\ \E k \in 1..Len(bankAccounts) : bankAccounts' = WithoutAt(bankAccounts, k)
          /\ \A a \in Range(bankAccounts') :
                balanceShown(bankAccounts', expenses', incomes', a.id)
                  = balanceShown(bankAccounts, expenses, incomes, a.id)]_vars

\* an account is gone, the other is left with records of its own, and an
\* expense and an income still refer to the deleted one
C17_Witness ==
    /\ Interactive
    /\ Len(bankAccounts) = 1
    /\ \E e \in Range(expenses) : e.bankAccountId = bankAccounts[1].id
    /\ \E e \in Range(expenses) :
          e.bankAccountId \in {101, 116} \ {bankAccounts[1].id}
    /\ \E r \in Range(incomes) :
          r.bankAccountId \in {101, 116} \ {bankAccounts[1].id}


\* the sum of a column of numbers
ColumnSum(col) == SumAmounts([i \in 1..Len(col) |-> [amount |-> col[i]]])

\* C18: in the spreadsheet the Dashboard exports, Totale Spese of the
\* summary sheet is the sum of Importo over the rows of the sheet Spese and
\* Totale Entrate the sum of Importo over the rows of the sheet Incassi,
\* whatever the ledger and the selected year.
C18_WorkbookTotals ==
    IsSome(lastWorkbook) =>
        /\ Get(lastWorkbook).totaleSpese = ColumnSum(Get(lastWorkbook).spese)
        /\ Get(lastWorkbook).totaleEntrate = ColumnSum(Get(lastWorkbook).incassi)


\* a step in which the import of a PDF/DOCX file ends with a failed
\* extraction: the service threw (also for a response without text), or it
\* returned no record
ExtractionFailed == ImportAiFinish(None) \/ ImportAiFinish(Some(<<>>))

\* C19: when the extraction service fails during a PDF/DOCX import, the
\* expenses are unchanged, no candidate is put into review, the importing
\* flag is reset and the failure is reported to the user.
C19_ExtractionFailure ==
    [][ExtractionFailed =>
          /\ expenses' = expenses
          /\ importCandidates' = <<>>
          /\ ~showImportReview'
          /\ ~isImporting'
          /\ alertText' \in {"importError", "noDataImport"}]_vars

\* an extraction has just failed on a ledger that holds expenses
C19_Witness ==
    /\ Interactive /\ currentView = "list"
    /\ alertText = "importError"
    /\ ~isImporting
    /\ ~showImportReview
    /\ expenses # <<>>


\* a step in which a save issued by a save effect fails
SaveFailed ==
    /\ idbQueue # <<>>
    /\ Head(idbQueue).op = "set"
    /\ ~Head(idbQueue).awaited
    /\ StoreStep(FALSE)

\* C20: when a save of a collection fails, the expenses, incomes and bank
\* accounts in memory are unchanged and the user is shown a warning that
\* the data was not saved.
C20_SaveFailureSurfaced ==
    [][SaveFailed =>
          /\ expenses' = expenses
          /\ incomes' = incomes
          /\ bankAccounts' = bankAccounts
          /\ alertText' # ""]_vars

---------------------------------------------------------------------------
(* Duplication: an organisation whose data of the localStorage version is *)
(* read at login copies an expense that has an account, a receipt and a    *)
(* date of its own                                                         *)

DuplicableExpense ==
    [id |-> 120, description |-> <<"a">>, amount |-> 45000, date |-> 20240102,
     category |-> "Manutenzione", bankAccountId |-> 101, status |-> "paid",
     attachments |-> <<"f">>]

DuplicateStore == StoreOf(<<"A">>, <<DuplicableExpense>>, <<>>, <<SampleAccount>>)

InitDuplicate == InitWith(EmptyStore, DuplicateStore, FALSE)

NextDuplicate ==
    \/ LoginSubmit(<<"a">>)
    \/ \E ok \in BOOLEAN : StoreAnswers(ok) /\ StoreStep(ok)
    \/ \E view \in {"add", "list"} : NavClick(view)
    \/ Tick
    \/ \E i \in 1..MaxExpenses : StartDuplicateExpense(i)
    \/ \E i \in 1..MaxExpenses : StartEditExpense(i)
    \/ IsSome(editingExpense) /\ ExpenseFormSubmit(FormOf(Get(editingExpense)))
    \/ /\ IsSome(editingExpense)
       /\ ExpenseFormSubmit([FormOf(Get(editingExpense)) EXCEPT !.description = <<"a">>])
    \/ ConfirmDuplicate
    \/ CancelDuplicate
    \/ CancelExpenseForm
    \/ \E i \in 1..MaxExpenses : DeleteExpense(i)

SpecDuplicate == InitDuplicate /\ [][NextDuplicate]_vars

\* a step of the list that opens the form on a draft with an id of its own
DraftOpened ==
    /\ Interactive /\ currentView = "list"
    /\ currentView' = "add"
    /\ IsSome(editingExpense')
    /\ Get(editingExpense') \notin Range(expenses)

\* the form is open on a draft that is no record of the ledger, and the
\* step changes the expenses
DraftSaved ==
    /\ Interactive /\ currentView = "add"
    /\ IsSome(editingExpense)
    /\ Get(editingExpense).id \notin Range(IdsOf(expenses))
    /\ expenses' # expenses

\* C21: duplicating an expense opens a draft with a fresh id, today's
\* date and no attachments, with amount, category, status and bankAccountId
\* of the original, and leaves the expenses unchanged; saving the draft
\* adds exactly one record, under an id no expense has, and changes no
\* existing record.
C21_DuplicateDraft ==
    [][/\ DraftOpened =>
            /\ expenses' = expenses
            /\ Get(editingExpense').id \notin Range(IdsOf(expenses))
            /\ Get(editingExpense').date = Today(now)
            /\ Get(editingExpense').attachments = <<>>
            /\ \E e \in Range(expenses) :
                  /\ Get(editingExpense').amount = e.amount
                  /\ Get(editingExpense').category = e.category
                  /\ Get(editingExpense').status = e.status
                  /\ Get(editingExpense').bankAccountId = e.bankAccountId
                  /\ Get(editingExpense').description = e.description \o <<Space, Copia>>
       /\ DraftSaved =>
            \E k \in 1..Len(expenses') :
                /\ WithoutAt(expenses', k) = expenses
                /\ expenses'[k].id \notin Range(IdsOf(expenses))]_vars

\* the ledger holds the original, with its receipt and its date, and the
\* saved copy: another id, today's date, no attachment, the same account
C21_Witness ==
    /\ Interactive /\ currentView = "list"
    /\ \E i, j \in 1..Len(expenses) :
          /\ expenses[i] = DuplicableExpense
          /\ expenses[j].id # expenses[i].id
          /\ EndsWithCopia(expenses[j].description)
          /\ expenses[j].date = Today(now)
          /\ expenses[j].date # expenses[i].date
          /\ expenses[j].attachments = <<>>
          /\ expenses[j].bankAccountId = 101
          /\ expenses[j].status = "paid"
          /\ expenses[j].category = "Manutenzione"
          /\ expenses[j].amount = expenses[i].amount

---------------------------------------------------------------------------
(* The report: an organisation with expenses of several months and        *)
(* categories, two categories of one month with the same subtotal          *)

ReportExpenses ==
    <<[id |-> 126, description |-> <<"a">>, amount |-> 10000, date |-> 20240101,
       category |-> "Varie", bankAccountId |-> 0, status |-> "paid", attachments |-> <<>>],
      [id |-> 125, description |-> <<"a">>, amount |-> 10000, date |-> 20231120,
       category |-> "Varie", bankAccountId |-> 0, status |-> "paid", attachments |-> <<>>],
      [id |-> 124, description |-> <<"a">>, amount |-> 20000, date |-> 20231115,
       category |-> "Manutenzione", bankAccountId |-> 0, status |-> "paid",
       attachments |-> <<>>],
      [id |-> 123, description |-> <<"a">>, amount |-> 10000, date |-> 20231101,
       category |-> "Pulizia", bankAccountId |-> 0, status |-> "unpaid",
       attachments |-> <<>>],
      [id |-> 122, description |-> <<"a">>, amount |-> 30000, date |-> 20231015,
       category |-> "Varie", bankAccountId |-> 0, status |-> "paid", attachments |-> <<>>],
      [id |-> 121, description |-> <<"a">>, amount |-> 5000, date |-> 20230310,
       category |-> "Manutenzione", bankAccountId |-> 0, status |-> "unpaid",
       attachments |-> <<>>]>>

InitReport == InitWith(StoreOf(<<"A">>, ReportExpenses, <<>>, <<>>), EmptyStore, TRUE)

NextReport ==
    \/ LoginSubmit(<<"a">>)
    \/ StoreStep(TRUE)
    \/ \E view \in {"reports", "list"} : NavClick(view)
    \/ \E y \in {2023, 2024} : SelectReportYear(y)
    \/ \E mode \in {"month", "category"} : SetGroupMode(mode)
    \/ \E i \in 1..Len(ReportExpenses) : DeleteExpense(i)

SpecReport == InitReport /\ [][NextReport]_vars

\* the positions in the ledger of the expenses of a year, a month and a category
PositionsOf(exps, year, month, category) ==
    {k \in 1..Len(exps) : /\ YearOf(exps[k].date) = year
                          /\ MonthOf(exps[k].date) = month
                          /\ exps[k].category = category}

Months == 0..11

\* the months of the year that have an expense, and the categories of those
MonthsUsed(exps, year) ==
    {m \in Months : \E c \in ExpenseCategory : PositionsOf(exps, year, m, c) # {}}
CategoriesUsed(exps, year, months) ==
    {c \in ExpenseCategory : \E m \in months : PositionsOf(exps, year, m, c) # {}}

\* the least element of a non-empty set of positions
First(at) == CHOOSE k \in at : \A j \in at : k <= j

CodeUnitOrder ==
    <<" ", "A", "B", "C", "D", "E", "F", "G", "H", "I", "J", "K", "L", "M", "N", "O", "P",
    "Q", "R", "S", "T", "U", "V", "W", "X", "Y", "Z", "a", "b", "c", "d", "e", "f", "g", "h",
    "i", "j", "k", "l", "m", "n", "o", "p", "q", "r", "s", "t", "u", "v", "w", "x", "y", "z">>

CodeUnit(ch) == CHOOSE k \in 1..Len(CodeUnitOrder) : CodeUnitOrder[k] = ch

\* the characters of a category label
LabelText(c) ==
    IF c = "Amministrazione"
        THEN <<"A", "m", "m", "i", "n", "i", "s", "t", "r", "a", "z", "i", "o", "n", "e">>
    ELSE IF c = "Assicurazione"
        THEN <<"A", "s", "s", "i", "c", "u", "r", "a", "z", "i", "o", "n", "e">>
    ELSE IF c = "Bollettino Postale"
        THEN <<"B", "o", "l", "l", "e", "t", "t", "i", "n", "o", " ", "P", "o", "s", "t",
             "a", "l", "e">>
    ELSE IF c = "Compenso Amministratore"
        THEN <<"C", "o", "m", "p", "e", "n", "s", "o", " ", "A", "m", "m", "i", "n", "i",
             "s", "t", "r", "a", "t", "o", "r", "e">>
    ELSE IF c = "Lettura Acqua"
        THEN <<"L", "e", "t", "t", "u", "r", "a", " ", "A", "c", "q", "u", "a">>
    ELSE IF c = "Manutenzione"
        THEN <<"M", "a", "n", "u", "t", "e", "n", "z", "i", "o", "n", "e">>
    ELSE IF c = "Pulizia"
        THEN <<"P", "u", "l", "i", "z", "i", "a">>
    ELSE IF c = "Pulizia Scale"
        THEN <<"P", "u", "l", "i", "z", "i", "a", " ", "S", "c", "a", "l", "e">>
    ELSE IF c = "Spese Bancarie"
        THEN <<"S", "p", "e", "s", "e", " ", "B", "a", "n", "c", "a", "r", "i", "e">>
    ELSE IF c = "Utenze"
        THEN <<"U", "t", "e", "n", "z", "e">>
    ELSE IF c = "Varie"
        THEN <<"V", "a", "r", "i", "e">>
    ELSE <<>>

RECURSIVE LexLess(_, _)
\* s comes before t in the order of strings: at the first place where they
\* differ s has the smaller code unit, or s is a proper prefix of t
LexLess(s, t) ==
    IF t = <<>> THEN FALSE
    ELSE IF s = <<>> THEN TRUE
    ELSE IF Head(s) # Head(t) THEN CodeUnit(Head(s)) < CodeUnit(Head(t))
    ELSE LexLess(Tail(s), Tail(t))

\* the positions in the ledger of the expenses of a year and a category
CategoryPositions(exps, year, category) ==
    {k \in 1..Len(exps) : YearOf(exps[k].date) = year /\ exps[k].category = category}

---------------------------------------------------------------------------
(* The figures of the dashboard: an organisation whose data of the        *)
(* localStorage version is read at login holds paid and unpaid expenses    *)
(* and incomes of two years, marks expenses paid or unpaid, filters its    *)
(* lists and writes backups                                                *)

BalanceExpenses ==
    <<[id |-> 134, description |-> <<"a">>, amount |-> 2300, date |-> 20240102,
       category |-> "Varie", bankAccountId |-> 0, status |-> "paid", attachments |-> <<>>],
      [id |-> 133, description |-> <<"b">>, amount |-> 1700, date |-> 20240101,
       category |-> "Varie", bankAccountId |-> 0, status |-> "unpaid",
       attachments |-> <<>>],
      [id |-> 132, description |-> <<"a">>, amount |-> 45000, date |-> 20231101,
       category |-> "Manutenzione", bankAccountId |-> 0, status |-> "paid",
       attachments |-> <<>>],
      [id |-> 131, description |-> <<"b">>, amount |-> 30000, date |-> 20231101,
       category |-> "Varie", bankAccountId |-> 0, status |-> "unpaid",
       attachments |-> <<>>]>>

BalanceIncomes ==
    <<[id |-> 136, description |-> <<"b">>, amount |-> 10000, date |-> 20240101,
       category |-> "Altro", bankAccountId |-> 0],
      [id |-> 135, description |-> <<"a">>, amount |-> 55000, date |-> 20231005,
       category |-> "Quote Condominiali", bankAccountId |-> 0]>>

\* the status select of the ExpenseForm set to the other value
OtherStatus(status) == IF status = "paid" THEN "unpaid" ELSE "paid"

InitBalance ==
    InitWith(EmptyStore,
             StoreOf(<<"A">>, BalanceExpenses, BalanceIncomes, <<SampleAccount>>), FALSE)

NextBalance ==
    \/ LoginSubmit(<<"a">>)
    \/ \E ok \in BOOLEAN : StoreAnswers(ok) /\ StoreStep(ok)
    \/ \E view \in {"dashboard", "list", "listIncome"} : NavClick(view)
    \/ \E y \in {2023, 2024} : SelectYear(y)
    \/ \E i \in 1..Len(BalanceExpenses) : StartEditExpense(i)
    \/ /\ IsSome(editingExpense)
       /\ ExpenseFormSubmit([FormOf(Get(editingExpense)) EXCEPT
                               !.status = OtherStatus(Get(editingExpense).status)])
    \/ CancelExpenseForm
    \/ DeleteExpense(1)
    \/ DeleteIncome(Len(BalanceIncomes))
    \/ SetFilter([NoFilter EXCEPT !.selectedCategory = "Manutenzione"])
    \/ ExportBackup

SpecBalance == InitBalance /\ [][NextBalance]_vars

\* the positions in a collection of the records dated in a year
DatedIn(list, year) == {k \in 1..Len(list) : YearOf(list[k].date) = year}

\* the step changes the status of expenses and nothing else of the ledger
StatusChanged ==
    /\ expenses' # expenses
    /\ Len(expenses') = Len(expenses)
    /\ \A k \in 1..Len(expenses) :
          [expenses'[k] EXCEPT !.status = expenses[k].status] = expenses[k]
    /\ incomes' = incomes

RoundedPercent(paid, total) == (200 * paid + total) \div (2 * total)

\* C25: the paid percentage of the selected year is
\* round(100 * totalPaidExpense / totalExpense), 0 when totalExpense is 0,
\* and lies between 0 and 100; with a paid expense of 450.00 and an unpaid
\* one of 300.00 in the year it is 60.
C25_PaidPercentage ==
    (Interactive /\ currentView = "dashboard") =>
        LET paid == SumOver(expenses, {k \in DatedIn(expenses, selectedYear) :
                                         expenses[k].status = "paid"})
            total == SumOver(expenses, DatedIn(expenses, selectedYear))
            percent == paidPercentage(expenses, selectedYear)
        IN /\ total = 0 => percent = 0
           /\ total > 0 => percent = RoundedPercent(paid, total)
           /\ percent \in 0..100
           /\ (paid = 45000 /\ total = 75000) => percent = 60



\* C26: the backup file holds the complete expenses, incomes and bank
\* accounts of the ledger, the name of the organisation, the export date
\* and version '1.0', whatever year the dashboard shows and whatever was
\* filtered in the lists; writing it changes no collection.
C26_BackupComplete ==
    /\ [](IsSome(lastBackup) => Get(lastBackup).version = "1.0")
    /\ [][lastBackup' # lastBackup =>
            /\ Get(lastBackup').expenses = expenses
            /\ Get(lastBackup').incomes = incomes
            /\ Get(lastBackup').bankAccounts = bankAccounts
            /\ Get(lastBackup').condoName = condoName
            /\ Get(lastBackup').exportDate = now
            /\ Get(lastBackup').version = "1.0"
            /\ <<expenses', incomes', bankAccounts'>> = <<expenses, incomes, bankAccounts>>]_vars

\* a backup was written while the dashboard showed 2023: it holds the
\* expenses and the income of 2024 too, and the account
C26_Witness ==
    /\ Interactive /\ currentView = "dashboard"
    /\ selectedYear = 2023
    /\ IsSome(lastBackup)
    /\ Get(lastBackup).expenses = expenses
    /\ \E e \in Range(Get(lastBackup).expenses) : YearOf(e.date) = 2024
    /\ \E i \in Range(Get(lastBackup).incomes) : YearOf(i.date) = 2024
    /\ \E e \in Range(Get(lastBackup).expenses) : YearOf(e.date) = 2023
    /\ Get(lastBackup).bankAccounts # <<>>



\* C28: the ledgers of two organisations never share storage: whenever an
\* organisation is logged in, each of its three storage keys differs from
\* the key of the same collection of every other name the login accepts,
\* so that nothing done under one name changes what the other loads.
C28_LedgersSeparate ==
    condoName # NoName =>
        \A other \in OrgNames \ {condoName} : \A type \in CollectionTypes :
            getStorageKey(type, other) # getStorageKey(type, condoName)


---------------------------------------------------------------------------
(* The ledger at work: an organisation whose stored ledger holds an income  *)
(* attributed to an account and, between two dated expenses, an expense     *)
(* whose date is no calendar date logs in; incomes and expenses are edited   *)
(* and deleted.                                                              *)

\* the ledger as the application wrote it after the expense of 2024, the
\* expense without a calendar date and the expense of 2025 were added
LedgerExpenses ==
    <<[id |-> 143, description |-> <<"a">>, amount |-> 45000, date |-> 20250101,
       category |-> "Varie", bankAccountId |-> 101, status |-> "unpaid",
       attachments |-> <<>>],
      [id |-> 142, description |-> <<"b">>, amount |-> 15000, date |-> BadDate,
       category |-> "Varie", bankAccountId |-> 0, status |-> "unpaid",
       attachments |-> <<>>],
      [id |-> 141, description |-> <<"a", "b">>, amount |-> 30000, date |-> 20240101,
       category |-> "Pulizia", bankAccountId |-> 0, status |-> "paid",
       attachments |-> <<>>]>>

\* the dates typed into the date input of the forms
LedgerDates == {20230101, 20240601}

\* the IncomeForm as it was opened for initialData, left untouched
IncomeFormOf(initialData) ==
    [description |-> initialData.description, amount |-> initialData.amount,
     date |-> initialData.date, category |-> initialData.category]

InitLedger ==
    InitWith(EmptyStore,
             StoreOf(<<"A">>, LedgerExpenses, <<SampleIncome>>, <<SampleAccount>>), FALSE)

NextLedger ==
    \/ LoginSubmit(<<"a">>)
    \/ \E ok \in BOOLEAN : StoreAnswers(ok) /\ StoreStep(ok)
    \/ \E view \in {"list", "listIncome", "listBankAccounts"} : NavClick(view)
    \/ StartEditIncome(1)
    \/ /\ IsSome(editingIncome)
       /\ IncomeFormSubmit(IncomeFormOf(Get(editingIncome)))
    \/ /\ IsSome(editingIncome)
       /\ \E d \in LedgerDates :
             IncomeFormSubmit([IncomeFormOf(Get(editingIncome)) EXCEPT !.date = d])
    \/ CancelIncomeForm
    \/ \E i \in 1..Len(LedgerExpenses) : StartEditExpense(i)
    \/ /\ IsSome(editingExpense)
       /\ \E d \in LedgerDates :
             ExpenseFormSubmit([FormOf(Get(editingExpense)) EXCEPT !.date = d])
    \/ CancelExpenseForm
    \/ \E i \in 1..Len(LedgerExpenses) : DeleteExpense(i)
    \/ DeleteIncome(1)

SpecLedger == InitLedger /\ [][NextLedger]_vars

\* the step saves the income that is open in the IncomeForm for editing
IncomeEdited ==
    /\ currentView = "addIncome"
    /\ IsSome(editingIncome)
    /\ incomes' # incomes

\* C27: an edit of an income keeps the bankAccountId of the record, so an
\* edit that leaves the amount as it was leaves the balance shown for
\* every bank account as it was.
C27_IncomeEditFrame ==
    [][IncomeEdited =>
         LET id == Get(editingIncome).id IN
         \A k \in 1..Len(incomes) : \A n \in 1..Len(incomes') :
            incomes[k].id = id /\ incomes'[n].id = id =>
               /\ incomes'[n].bankAccountId = incomes[k].bankAccountId
               /\ incomes'[n].amount = incomes[k].amount =>
                     \A a \in Range(bankAccounts) :
                        balanceShown(bankAccounts', expenses', incomes', a.id)
                          = balanceShown(bankAccounts, expenses, incomes, a.id)]_vars


\* the records of a collection that have a calendar date are in the order
\* of their dates, newest first
NewestFirst(list) ==
    \A i \in 1..Len(list) : \A j \in (i + 1)..Len(list) :
        IsDate(list[i].date) /\ IsDate(list[j].date) =>
            GetTime(list[i].date) >= GetTime(list[j].date)

\* C30: after any sequence of additions, edits, deletions and imports, the
\* expenses in memory and the incomes in memory are each ordered by date,
\* newest first.
C30_NewestFirst == NewestFirst(expenses) /\ NewestFirst(incomes)


---------------------------------------------------------------------------
(* The XML round trip: the expenses of a ledger with one bank account are   *)
(* exported unfiltered, deleted one by one, and the exported file is        *)
(* imported into the emptied ledger.                                        *)

\* what the user types into the ExpenseForm: an expense of 12.50 whose
\* description has characters that XML escapes, and an expense of 0.00
RoundTripFillings ==
    {[description |-> <<"a", "&", "<", ">">>, amount |-> 1250, date |-> 20240101,
      category |-> "Varie", bankAccountId |-> 101, status |-> "paid", attachments |-> <<>>],
     [description |-> <<"b">>, amount |-> 0, date |-> 20231101, category |-> "Pulizia",
      bankAccountId |-> 0, status |-> "unpaid", attachments |-> <<>>]}

InitRoundTrip ==
    InitWith(EmptyStore,
             StoreOf(<<"A">>, <<DuplicableExpense>>, <<>>, <<SampleAccount>>), FALSE)

NextRoundTrip ==
    \/ LoginSubmit(<<"a">>)
    \/ \E ok \in BOOLEAN : StoreAnswers(ok) /\ StoreStep(ok)
    \/ \E view \in {"add", "list"} : NavClick(view)
    \/ \E f \in RoundTripFillings : ExpenseFormSubmit(f)
    \/ CancelExpenseForm
    \/ \E i \in 1..MaxExpenses : DeleteExpense(i)
    \/ listFilter = NoFilter /\ Export("xml")
    \/ ImportStart
    \/ /\ currentView = "list"
       /\ lastExport.format = "xml"
       /\ ImportXml([i \in 1..Len(lastExport.rows) |-> parseXmlElement(lastExport.rows[i])])

SpecRoundTrip == InitRoundTrip /\ [][NextRoundTrip]_vars

\* the step imports the XML file exported last into the ledger, which holds
\* no expense
ImportedIntoEmpty ==
    /\ currentView = "list"
    /\ lastExport.format = "xml"
    /\ isImporting /\ ~isImporting'
    /\ alertText' = "importSuccess"
    /\ expenses = <<>>

\* C29: importing the XML file of an unfiltered export into the emptied
\* ledger with the same bank accounts gives one expense per exported
\* expense, with its id, date, description, category, amount, status and
\* bank account.
C29_XmlRoundTrip ==
    [][ImportedIntoEmpty =>
         /\ Len(expenses') = Len(lastExport.list)
         /\ \A k \in 1..Len(lastExport.list) :
               \E n \in 1..Len(expenses') :
                  [expenses'[n] EXCEPT !.attachments = lastExport.list[k].attachments]
                     = lastExport.list[k]]_vars

===========================================================================
